---------------------------- MODULE Spec2Model ----------------------------
(***************************************************************************)
(* The connection-management core of the raptor TCP server                 *)
(* (src/core/linux/tcp_server.cc and src/core/windows/tcp_server.cc) as a  *)
(* state machine: the slot table, the timeout index, the free-list, the    *)
(* MPSC hand-off queue with its counter, the dispatch thread and the       *)
(* lifecycle (Init, Start, Shutdown).                                      *)
(* The outbound TCP client (src/unnamed/part_000, TcpClient) is the       *)
(* variable `client'; the server's actions leave it alone.                 *)
(*                                                                         *)
(* Both builds are modelled; `platform' says which one a behaviour is of.  *)
(* Handlers that run under _conn_mtx from their first table access to      *)
(* their last are one action.  Shutdown, the dispatch thread and the       *)
(* Windows handlers, which take the mutex piecewise, are several.          *)
(*                                                                         *)
(* Undefined behaviour (an out-of-range _mgr[index], a call through a null *)
(* pointer, front() of an empty list) is a choice between the outcomes a   *)
(* build can produce; the ones that do not return end in `fault', after    *)
(* which the process takes no further step.                                *)
(***************************************************************************)
EXTENDS Integers, Sequences, FiniteSets, TLC

(***************************************************************************)
(* Bounds of the model.                                                    *)
(***************************************************************************)
\* The source reserves 100 slots (enum RESERVED_CONNECTION_COUNT = 100).  The
\* model keeps the name and scales the reserve down, so that exhausting the
\* reserve, growing the table and reissuing an index happen within the bounds.
RESERVED_CONNECTION_COUNT == 2
\* options.max_connections is drawn from 1..MaxConnections.
MaxConnections == 3
\* options.connection_timeout is drawn from 1..MaxTimeout (seconds).
MaxTimeout == 1
\* Connections accepted over one behaviour.
MaxAccepts == 3
\* Times the clock is seen to advance over one behaviour.
MaxTicks == 1
\* Event records in the MPSC queue at one time.
MaxQueue == 2
\* Successful Init calls over one behaviour.
MaxInits == 1
\* Connections accepted over one behaviour in which the threads run unscheduled
\* (SpecShutdown).
ShutdownAccepts == 1
\* Event records pushed and connections accepted over one behaviour that keeps
\* the history (SpecDispatch).
MaxPushes == 4
DispatchAccepts == 3

\* Wall-clock second at which the behaviour begins (Now() at construction).
StartTime == 65536
\* The port the listener accepts on.
ListenPort == 8080

(***************************************************************************)
(* Unsigned values wider than TLC's integers are kept as 16-bit limbs,     *)
(* most significant first: a uint32_t is <<hi, lo>>, a ConnectionId        *)
(* (uint64_t) is <<magic, port, index_hi, index_lo>>.                      *)
(***************************************************************************)
Limb == 65536

U32(n) == <<(n \div Limb) % Limb, n % Limb>>

U32Val(u) == u[1] * Limb + u[2]

U32GreaterEq(a, b) == a[1] > b[1] \/ (a[1] = b[1] /\ a[2] >= b[2])

\* constexpr uint32_t InvalidIndex = static_cast<uint32_t>(-1);
InvalidIndex == <<Limb - 1, Limb - 1>>

\* core::InvalidConnectionId: the all-ones sentinel.
InvalidConnectionId == <<Limb - 1, Limb - 1, Limb - 1, Limb - 1>>

\* core::BuildConnectionId(magic, listen_port, index): [magic:16|port:16|index:32]
BuildConnectionId(magic, port, uid) ==
    <<magic % Limb, port % Limb, (uid \div Limb) % Limb, uid % Limb>>

GetMagicNumber(cid) == cid[1]

GetListenPort(cid) == cid[2]

GetUserId(cid) == <<cid[3], cid[4]>>

\* _magic_number = (n >> 16) & 0xffff
MagicOf(n) == (n \div Limb) % Limb

(***************************************************************************)
(* State.                                                                  *)
(***************************************************************************)
VARIABLES
    client,               \* the TcpClient of the process: its fields, the position of
                          \* WorkThread and the callbacks it has invoked
    platform,             \* "linux" | "windows": which tcp_server.cc is built
    shutdown,             \* bool _shutdown
    options,              \* RaptorOptions _options
    magic_number,         \* uint16_t _magic_number
    last_timeout_time,    \* Atomic<time_t> _last_timeout_time
    listener,             \* _listener: "null" | "created" | "listening" | "shutdown"
    io_thread,            \* _recv_thread/_send_thread, _rs_thread: "null" | "created" | "running" | "shutdown"
    mq_thd,               \* _mq_thd and the position of MessageQueueThread
    dispatching,          \* the record MessageQueueThread popped and is dispatching
    mgr,                  \* std::vector<ConnectionData> _mgr
    timeout_record_list,  \* std::multimap<time_t, uint32_t> _timeout_record_list
    free_index_list,      \* std::list<uint32_t> _free_index_list
    mpscq,                \* MultiProducerSingleConsumerQueue _mpscq
    count,                \* AtomicUInt32 _count
    sd,                   \* position of the thread inside Shutdown()
    now,                  \* the wall clock, Now()
    accepted,             \* connections created so far; the next one is accepted + 1
    inits,                \* successful Init calls so far
    tags,                 \* slot indices whose cid was handed to the I/O engine as a tag
    shut,                 \* the connections still held on which Connection::Shutdown has run
    expired,              \* the cids whose connection was evicted since the last Init
    drained,              \* event records Shutdown deleted undelivered since the last Init
    fault,                \* "none", or the undefined behaviour the process ended in
    pending,              \* Windows: per thread, the handler that has looked its
                          \* connection up and has DeleteConnection/RefreshTime to call
    last,                 \* the handler that ran last: [op, cid, ret, conn]
    hist,                 \* where a behaviour keeps it: the event records pushed and
                          \* the callbacks invoked since construction, in order
    checking              \* per engine thread, the `current' with which it passed the
                          \* interval test of OnCheckingEvent and has the sweep to run

vars == <<client, platform, shutdown, options, magic_number, last_timeout_time, listener,
          io_thread, mq_thd, dispatching, mgr, timeout_record_list,
          free_index_list, mpscq, count, sd, now, accepted, inits, tags, shut,
          expired, drained, fault, pending, last, hist, checking>>

\* The fields the slot-table mutex _conn_mtx protects.
tables == <<mgr, timeout_record_list, free_index_list>>

lifecycle == <<shutdown, options, magic_number, last_timeout_time, listener,
               io_thread, inits>>

NoCid == <<>>

NoMsg == [type |-> "none", cid |-> NoCid]

\* TcpClient::TcpClient: _shutdown(true), _fd(-1); no worker thread yet and no
\* callback invoked.  `stop' is the position of the caller inside Shutdown.
NewClient ==
    [shutdown |-> TRUE, is_connected |-> FALSE, fd |-> -1, snd_buffer |-> 0,
     thd |-> "none", readable |-> FALSE, error_occurred |-> FALSE,
     stop |-> "idle", inits |-> 0, calls |-> <<>>]

\* TimeoutRecord::iterator end(), and the value-initialised iterator of a slot
\* that never held a connection.
End == -1

\* A slot without a connection: first = nullptr.
NullSlot == [first |-> 0, second |-> End]

Platforms == {"linux", "windows"}

\* The threads that run the Windows handlers: a caller of the public interface
\* and a worker of the completion port.
Threads == {"user", "io"}

Idle == [op |-> "none", index |-> 0, next |-> "none", ret |-> "none", conn |-> 0]

\* The threads of the I/O engine that call OnCheckingEvent: _recv_thread and
\* _send_thread (Linux), two workers of _rs_thread's pool (Windows).
Engines == {"recv", "send"}

\* An engine thread that is not inside OnCheckingEvent.
NotChecking == -1

\* The history of a behaviour that keeps none, and the empty history of one
\* that does.
NoHistory == [on |-> FALSE, pushed |-> <<>>, delivered |-> <<>>]

EmptyHistory == [on |-> TRUE, pushed |-> <<>>, delivered |-> <<>>]

(***************************************************************************)
(* The containers.                                                         *)
(***************************************************************************)
\* std::vector::resize(n): keeps the first n elements, appends empty slots.
Resize(v, n) == [i \in 1..n |-> IF i <= Len(v) THEN v[i] ELSE NullSlot]

\* The indices i with from <= i < to, ascending (the push_back loops).
RECURSIVE IndexRange(_, _)
IndexRange(from, to) ==
    IF from >= to THEN <<>> ELSE <<from>> \o IndexRange(from + 1, to)

\* std::multimap::insert: after the last entry whose key is <= key.
RECURSIVE TimeoutInsert(_, _, _)
TimeoutInsert(list, key, value) ==
    IF list = <<>> \/ Head(list).key > key
    THEN <<[key |-> key, value |-> value]>> \o list
    ELSE <<Head(list)>> \o TimeoutInsert(Tail(list), key, value)

\* std::multimap::erase(iterator): the iterator of slot `value' with key `key'.
RECURSIVE TimeoutErase(_, _, _)
TimeoutErase(list, key, value) ==
    IF list = <<>> THEN <<>>
    ELSE IF Head(list).key = key /\ Head(list).value = value THEN Tail(list)
    ELSE <<Head(list)>> \o TimeoutErase(Tail(list), key, value)

(***************************************************************************)
(* The server's shared state as a value, so that a handler's effect is     *)
(* computed as the code computes it, statement after statement.            *)
(*   q, cnt: the MPSC queue and _count;  sig: _cv.Signal() was called;     *)
(*   shut: connections shut down;  expired: cids whose connection is gone; *)
(*   hist: the history, see PushMessage;                                   *)
(*   fault: undefined behaviour met.                                       *)
(***************************************************************************)
Current ==
    [mgr |-> mgr, tl |-> timeout_record_list, fl |-> free_index_list,
     q |-> mpscq, cnt |-> count, shut |-> shut, expired |-> expired,
     hist |-> hist, sig |-> FALSE, fault |-> "none"]

Faulted(s, what) == [s EXCEPT !.fault = IF s.fault = "none" THEN what ELSE s.fault]

\* OnConnectionArrived / OnDataReceived / OnConnectionClosed: allocate a record,
\* _mpscq.push, _count.FetchAdd(1), _cv.Signal().  `conn' is the Connection
\* that makes the call; the history notes it next to the record.
PushMessage(s, type, cid, conn) ==
    [s EXCEPT !.q = Append(s.q, [type |-> type, cid |-> cid]),
              !.cnt = s.cnt + 1,
              !.sig = TRUE,
              !.hist = IF s.hist.on
                       THEN [s.hist EXCEPT !.pushed =
                                Append(@, [type |-> type, cid |-> cid, conn |-> conn])]
                       ELSE s.hist]

OnConnectionArrived(s, cid, conn) == PushMessage(s, "kNewConnection", cid, conn)

OnDataReceived(s, cid, conn) == PushMessage(s, "kRecvAMessage", cid, conn)

\* OnConnectionClosed that pushes its record twice.
OnConnectionClosedTwice(s, cid, conn) ==
    PushMessage(PushMessage(s, "kCloseClient", cid, conn), "kCloseClient", cid, conn)

OnConnectionClosed(s, cid, conn) == PushMessage(s, "kCloseClient", cid, conn)

\* The cid Connection::Init stored in the connection of slot `index'.
CidOfSlot(index) == BuildConnectionId(magic_number, ListenPort, index)

\* Connection::Shutdown(notify) on connection `conn' of slot `index': the
\* connection closes its socket and reports the close to the server, once.
ConnectionShutdown(s, conn, index, notify) ==
    IF conn \in s.shut THEN s
    ELSE OnConnectionClosed([s EXCEPT !.shut = s.shut \cup {conn}],
                            CidOfSlot(index), conn)

\* CheckConnectionId with the bound test off by one: if (uid > max_connections).
CheckConnectionIdInclusive(cid) ==
    IF cid = InvalidConnectionId THEN InvalidIndex
    ELSE IF GetMagicNumber(cid) # magic_number THEN InvalidIndex
    ELSE IF GetUserId(cid) # U32(options.max_connections)
            /\ U32GreaterEq(GetUserId(cid), U32(options.max_connections))
    THEN InvalidIndex
    ELSE GetUserId(cid)

\* uint32_t TcpServer::CheckConnectionId(ConnectionId cid) const
CheckConnectionId(cid) ==
    IF cid = InvalidConnectionId THEN InvalidIndex
    ELSE IF GetMagicNumber(cid) # magic_number THEN InvalidIndex
    ELSE IF U32GreaterEq(GetUserId(cid), U32(options.max_connections)) THEN InvalidIndex
    ELSE GetUserId(cid)

\* _mgr[index] is inside the vector.
InRange(s, index) == index < Len(s.mgr)

\* DeleteConnection that puts the freed index at the front of the free-list.
LinuxDeleteConnectionPushFront(s, index) ==
    LET slot == s.mgr[index + 1] IN
    [s EXCEPT !.mgr[index + 1] = NullSlot,
              !.tl = TimeoutErase(s.tl, slot.second, index),
              !.fl = <<index>> \o s.fl,
              !.shut = s.shut \ {slot.first},
              !.expired = s.expired \cup {CidOfSlot(index)}]

\* void TcpServer::DeleteConnection(uint32_t index), Linux: the caller holds
\* _conn_mtx and has checked nothing but the pointer it shut down.
LinuxDeleteConnection(s, index) ==
    LET slot == s.mgr[index + 1] IN
    [s EXCEPT !.mgr[index + 1] = NullSlot,
              !.tl = TimeoutErase(s.tl, slot.second, index),
              !.fl = Append(s.fl, index),
              !.shut = s.shut \ {slot.first},
              !.expired = s.expired \cup {CidOfSlot(index)}]

\* The Windows DeleteConnection without `if (!_mgr[index].first) return'.
WindowsDeleteConnectionNoNullTest(s, index) ==
    LET slot == s.mgr[index + 1] IN
    [s EXCEPT !.mgr[index + 1] = NullSlot,
              !.tl = TimeoutErase(s.tl, slot.second, index),
              !.fl = Append(s.fl, index),
              !.shut = s.shut \ {slot.first},
              !.expired = s.expired \cup {CidOfSlot(index)}]

\* void TcpServer::DeleteConnection(uint32_t index), Windows: takes _conn_mtx,
\* returns on an empty slot.
WindowsDeleteConnection(s, index) ==
    LET slot == s.mgr[index + 1] IN
    IF slot.first = 0 THEN s
    ELSE [s EXCEPT !.mgr[index + 1] = NullSlot,
                   !.tl = TimeoutErase(s.tl, slot.second, index),
                   !.fl = Append(s.fl, index),
                   !.shut = s.shut \ {slot.first},
                   !.expired = s.expired \cup {CidOfSlot(index)}]

\* _mgr[index].first->Shutdown(notify); DeleteConnection(index); with no test
\* of the pointer (OnRecvEvent, OnSendEvent, OnCheckingEvent).
ShutdownAndDelete(s, index, notify) ==
    IF s.fault # "none" THEN s
    ELSE IF ~InRange(s, index) THEN Faulted(s, "out_of_range")
    ELSE IF s.mgr[index + 1].first = 0 THEN Faulted(s, "null_deref")
    ELSE LinuxDeleteConnection(
             ConnectionShutdown(s, s.mgr[index + 1].first, index, notify), index)

\* The sweep with the loop left at `if (it->first >= current)'.
RECURSIVE SweepStrict(_, _, _)
SweepStrict(s, entries, current) ==
    IF entries = <<>> \/ s.fault # "none" THEN s
    ELSE IF Head(entries).key >= current THEN s
    ELSE SweepStrict(ShutdownAndDelete(s, Head(entries).value, TRUE),
                     Tail(entries), current)

\* The loop of OnCheckingEvent over the entries that were in the timeout index
\* when it began (`it' is advanced before the entry it stood on is erased).
RECURSIVE Sweep(_, _, _)
Sweep(s, entries, current) ==
    IF entries = <<>> \/ s.fault # "none" THEN s
    ELSE IF Head(entries).key > current THEN s
    ELSE Sweep(ShutdownAndDelete(s, Head(entries).value, TRUE), Tail(entries), current)

\* Writing a handler's result back; _cv.Signal() wakes the dispatch thread if it
\* is blocked in _cv.Wait.
Commit(s) ==
    /\ mgr' = s.mgr
    /\ timeout_record_list' = s.tl
    /\ free_index_list' = s.fl
    /\ mpscq' = s.q
    /\ count' = s.cnt
    /\ shut' = s.shut
    /\ expired' = s.expired
    /\ hist' = s.hist
    /\ fault' = s.fault
    /\ mq_thd' = IF s.sig /\ mq_thd = "wait" THEN "woken" ELSE mq_thd

\* What a handler did: its name, the cid it was given, what it returned and
\* the connection it called into (0: none).
Reached(op, cid, ret, conn) == [op |-> op, cid |-> cid, ret |-> ret, conn |-> conn]

Ret(op, cid, ret) == Reached(op, cid, ret, 0)

(***************************************************************************)
(* Construction.  The constructor sets _service, _proto and _shutdown; the *)
(* options and the magic number hold whatever the memory held.             *)
(***************************************************************************)
Init ==
    /\ platform \in Platforms
    /\ shutdown = TRUE
    /\ options \in {[max_connections |-> m, connection_timeout |-> 0] :
                        m \in {0, MaxConnections}}
    /\ magic_number \in {0, MagicOf(StartTime)}
    /\ last_timeout_time = 0
    /\ listener = "null"
    /\ io_thread = "null"
    /\ mq_thd = "null"
    /\ dispatching = NoMsg
    /\ mgr = <<>>
    /\ timeout_record_list = <<>>
    /\ free_index_list = <<>>
    /\ mpscq = <<>>
    /\ count = 0
    /\ sd = "idle"
    /\ now = StartTime
    /\ accepted = 0
    /\ inits = 0
    /\ tags = {}
    /\ shut = {}
    /\ expired = {}
    /\ drained = 0
    /\ fault = "none"
    /\ pending = [t \in Threads |-> Idle]
    /\ last = Ret("TcpServer", NoCid, "none")
    /\ hist = NoHistory
    /\ checking = [e \in Engines |-> NotChecking]
    /\ client = NewClient

(***************************************************************************)
(* Lifecycle calls of the owning thread.                                   *)
(***************************************************************************)
\* RefCountedPtr<Status> TcpServer::Init(const RaptorOptions* options)
TcpServerInit ==
    /\ fault = "none"
    /\ sd = "idle"
    /\ IF ~shutdown
       THEN /\ last' = Ret("Init", NoCid, "error")
            /\ UNCHANGED <<client, platform, lifecycle, mq_thd, dispatching, tables,
                           mpscq, hist, count, sd, now, accepted, tags, drained, shut,
                           expired, fault, pending, checking>>
       ELSE \/ \* _listener->Init() or a SendRecvThread::Init() fails
               /\ listener' = "created"
               /\ io_thread' = "created"
               /\ last' = Ret("Init", NoCid, "error")
               /\ UNCHANGED <<client, platform, shutdown, options, magic_number,
                              last_timeout_time, inits, mq_thd, dispatching,
                              tables, mpscq, hist, count, sd, now, accepted, tags, drained,
                              shut, expired, fault, pending, checking>>
            \/ /\ inits < MaxInits
               /\ \E m \in 1..MaxConnections, t \in 1..MaxTimeout :
                      options' = [max_connections |-> m, connection_timeout |-> t]
               /\ listener' = "created"
               /\ io_thread' = "created"
               /\ shutdown' = FALSE
               /\ count' = 0
               /\ mq_thd' = "created"
               /\ mgr' = Resize(mgr, RESERVED_CONNECTION_COUNT)
               /\ free_index_list' =
                      free_index_list \o IndexRange(0, RESERVED_CONNECTION_COUNT)
               /\ magic_number' = MagicOf(now)
               /\ last_timeout_time' = now
               /\ inits' = inits + 1
               /\ tags' = {}
               /\ expired' = {}
               /\ drained' = 0
               /\ last' = Ret("Init", NoCid, "ok")
               /\ UNCHANGED <<client, platform, dispatching, timeout_record_list, mpscq, hist,
                              sd, now, accepted, shut, fault, pending, checking>>

\* raptor_error TcpServer::Start(): `stage' is the first stage that fails.
TcpServerStart ==
    /\ fault = "none"
    /\ sd = "idle"
    /\ IF listener = "null"
       THEN \* _listener is a null shared_ptr: the call crashes, or runs on
            \* no object and reports failure
            /\ \E crash \in BOOLEAN :
                   /\ fault' = IF crash THEN "null_deref" ELSE "none"
                   /\ last' = Ret("Start", NoCid, IF crash THEN "crash" ELSE "error")
            /\ UNCHANGED <<client, platform, lifecycle, mq_thd, dispatching, tables,
                           mpscq, hist, count, sd, now, accepted, tags, drained, shut,
                           expired, pending, checking>>
       ELSE /\ \E stage \in {"listener", "engine", "none"} :
                   /\ listener' = IF stage = "listener" THEN listener ELSE "listening"
                   /\ io_thread' = IF stage = "none" THEN "running" ELSE io_thread
                   /\ mq_thd' = IF stage = "none" /\ mq_thd \in {"created", "exited"}
                                THEN "top" ELSE mq_thd
                   /\ last' = Ret("Start", NoCid, IF stage = "none" THEN "ok" ELSE "error")
            /\ UNCHANGED <<client, platform, shutdown, options, magic_number,
                           last_timeout_time, inits, dispatching, tables, mpscq, hist,
                           count, sd, now, accepted, tags, drained, shut, expired,
                           fault, pending, checking>>

(***************************************************************************)
(* void TcpServer::Shutdown(), statement by statement.                     *)
(***************************************************************************)
\* Shutdown without `if (!_shutdown)': the sequence runs on every call.
ShutdownBeginUnguarded ==
    /\ fault = "none"
    /\ sd = "idle"
    /\ shutdown' = TRUE
    /\ sd' = "listener"
    /\ last' = Ret("Shutdown", NoCid, "begun")
    /\ UNCHANGED <<client, platform, options, magic_number, last_timeout_time, listener,
                   io_thread, inits, mq_thd, dispatching, tables, mpscq, hist, count, now,
                   accepted, tags, drained, shut, expired, fault, pending, checking>>

\* if (!_shutdown) { _shutdown = true;
ShutdownBegin ==
    /\ fault = "none"
    /\ sd = "idle"
    /\ IF shutdown
       THEN /\ last' = Ret("Shutdown", NoCid, "noop")
            /\ UNCHANGED <<client, platform, lifecycle, mq_thd, dispatching, tables,
                           mpscq, hist, count, sd, now, accepted, tags, drained, shut,
                           expired, fault, pending, checking>>
       ELSE /\ shutdown' = TRUE
            /\ sd' = "listener"
            /\ last' = Ret("Shutdown", NoCid, "begun")
            /\ UNCHANGED <<client, platform, options, magic_number, last_timeout_time,
                           listener, io_thread, inits, mq_thd, dispatching,
                           tables, mpscq, hist, count, now, accepted, tags, drained, shut,
                           expired, fault, pending, checking>>

\* _listener->Shutdown();
ShutdownListener ==
    /\ fault = "none"
    /\ sd = "listener"
    /\ listener' = "shutdown"
    /\ sd' = "engine"
    /\ last' = Ret("Shutdown", NoCid, "listener")
    /\ UNCHANGED <<client, platform, shutdown, options, magic_number, last_timeout_time,
                   io_thread, inits, mq_thd, dispatching, tables, mpscq, hist, count,
                   now, accepted, tags, drained, shut, expired, fault, pending, checking>>

\* Shutdown that goes on to the signal without shutting the engine down.
ShutdownEngineOmitted ==
    /\ fault = "none"
    /\ sd = "engine"
    /\ pending["io"] = Idle
    /\ sd' = "signal"
    /\ last' = Ret("Shutdown", NoCid, "engine")
    /\ UNCHANGED <<client, platform, lifecycle, mq_thd, dispatching, tables, mpscq, hist,
                   count, now, accepted, tags, drained, shut, expired, fault,
                   pending, checking>>

\* _recv_thread->Shutdown(); _send_thread->Shutdown();  (_rs_thread->Shutdown();)
ShutdownEngine ==
    /\ fault = "none"
    /\ sd = "engine"
    /\ pending["io"] = Idle
    /\ io_thread' = "shutdown"
    /\ sd' = "signal"
    /\ last' = Ret("Shutdown", NoCid, "engine")
    /\ UNCHANGED <<client, platform, shutdown, options, magic_number, last_timeout_time,
                   listener, inits, mq_thd, dispatching, tables, mpscq, hist, count,
                   now, accepted, tags, drained, shut, expired, fault, pending, checking>>

\* _cv.Signal();
ShutdownSignal ==
    /\ fault = "none"
    /\ sd = "signal"
    /\ mq_thd' = IF mq_thd = "wait" THEN "woken" ELSE mq_thd
    /\ sd' = "join"
    /\ last' = Ret("Shutdown", NoCid, "signal")
    /\ UNCHANGED <<client, platform, lifecycle, dispatching, tables, mpscq, hist, count, now,
                   accepted, tags, drained, shut, expired, fault, pending, checking>>

\* Shutdown without _mq_thd.Join(): it goes on to the teardown with the dispatch
\* thread wherever it is.
ShutdownJoinNoWait ==
    /\ fault = "none"
    /\ sd = "join"
    /\ sd' = "teardown"
    /\ last' = Ret("Shutdown", NoCid, "join")
    /\ UNCHANGED <<client, platform, lifecycle, mq_thd, dispatching, tables, mpscq, hist,
                   count, now, accepted, tags, drained, shut, expired, fault,
                   pending, checking>>

\* _mq_thd.Join(); returns once MessageQueueThread has returned (at once for a
\* thread that was never started).
ShutdownJoin ==
    /\ fault = "none"
    /\ sd = "join"
    /\ mq_thd \in {"created", "exited"}
    /\ sd' = "teardown"
    /\ last' = Ret("Shutdown", NoCid, "join")
    /\ UNCHANGED <<client, platform, lifecycle, mq_thd, dispatching, tables, mpscq, hist,
                   count, now, accepted, tags, drained, shut, expired, fault, pending, checking>>

\* for (auto& obj : _mgr) if (obj.first) { obj.first->Shutdown(false); delete }
RECURSIVE ShutdownConnections(_, _)
ShutdownConnections(s, index) ==
    IF index >= Len(s.mgr) THEN s
    ELSE LET conn == s.mgr[index + 1].first IN
         ShutdownConnections(
             IF conn = 0 THEN s
             ELSE [ConnectionShutdown(s, conn, index, FALSE)
                       EXCEPT !.mgr[index + 1].first = 0, !.shut = @ \ {conn}],
             index + 1)

\* _conn_mtx.Lock(); _timeout_record_list.clear(); _free_index_list.clear();
\* the loop over _mgr; _mgr.clear(); _conn_mtx.Unlock();
Teardown(s) ==
    [ShutdownConnections([s EXCEPT !.tl = <<>>, !.fl = <<>>], 0)
         EXCEPT !.mgr = <<>>]

ShutdownTeardown ==
    /\ fault = "none"
    /\ sd = "teardown"
    /\ Commit(Teardown(Current))
    /\ sd' = "drain"
    /\ last' = Ret("Shutdown", NoCid, "teardown")
    /\ UNCHANGED <<client, platform, lifecycle, dispatching, now, accepted, tags, drained,
                   pending, checking>>

\* The drain as a single PopAndCheckEnd, without the loop.
ShutdownDrainOnce ==
    /\ fault = "none"
    /\ sd = "drain"
    /\ IF mpscq # <<>>
       THEN /\ mpscq' = Tail(mpscq)
            /\ count' = count - 1
            /\ drained' = drained + 1
       ELSE UNCHANGED <<mpscq, count, drained>>
    /\ sd' = "idle"
    /\ last' = Ret("Shutdown", NoCid, "done")
    /\ UNCHANGED <<client, platform, lifecycle, mq_thd, dispatching, tables, now, hist,
                   accepted, tags, shut, expired, fault, pending, checking>>

\* One turn of do { n = _mpscq.PopAndCheckEnd(&empty); ... } while (!empty);
\* Shutdown returns after the turn that found the queue empty.
ShutdownDrain ==
    /\ fault = "none"
    /\ sd = "drain"
    /\ IF mpscq # <<>>
       THEN /\ mpscq' = Tail(mpscq)
            /\ count' = count - 1
            /\ drained' = drained + 1
            /\ last' = Ret("Shutdown", NoCid, "drain")
            /\ UNCHANGED sd
       ELSE /\ sd' = "idle"
            /\ last' = Ret("Shutdown", NoCid, "done")
            /\ UNCHANGED <<mpscq, count, drained>>
    /\ UNCHANGED <<client, platform, lifecycle, mq_thd, dispatching, tables, now, hist,
                   accepted, tags, shut, expired, fault, pending, checking>>

(***************************************************************************)
(* void TcpServer::MessageQueueThread, the dispatch thread.                *)
(*   "top"    at while (!_shutdown)                                        *)
(*   "count"  holds _mutex, at while (_count.Load() == 0)                  *)
(*   "towait" read _count == 0, about to call _cv.Wait(&_mutex)            *)
(*   "wait"   blocked in _cv.Wait                                          *)
(*   "woken"  _cv.Wait returned, at if (_shutdown)                         *)
(*   "pop"    at _mpscq.pop()                                              *)
(*   "call"   inside Dispatch(msg): the application callback runs          *)
(***************************************************************************)
DispatchFrame ==
    <<client, platform, lifecycle, tables, sd, now, accepted, tags, drained, shut,
      expired, fault, pending, checking>>

MqTop ==
    /\ fault = "none"
    /\ mq_thd = "top"
    /\ mq_thd' = IF shutdown THEN "exited" ELSE "count"
    /\ last' = Ret("MessageQueueThread", NoCid, IF shutdown THEN "exit" ELSE "lock")
    /\ UNCHANGED <<DispatchFrame, dispatching, mpscq, hist, count>>

\* The dispatch thread going on to _mpscq.pop() whatever _count reads.
MqCountNoTest ==
    /\ fault = "none"
    /\ mq_thd = "count"
    /\ mq_thd' = "pop"
    /\ last' = Ret("MessageQueueThread", NoCid, "ready")
    /\ UNCHANGED <<DispatchFrame, dispatching, mpscq, hist, count>>

MqCount ==
    /\ fault = "none"
    /\ mq_thd = "count"
    /\ mq_thd' = IF count = 0 THEN "towait" ELSE "pop"
    /\ last' = Ret("MessageQueueThread", NoCid, IF count = 0 THEN "empty" ELSE "ready")
    /\ UNCHANGED <<DispatchFrame, dispatching, mpscq, hist, count>>

MqWait ==
    /\ fault = "none"
    /\ mq_thd = "towait"
    /\ mq_thd' = "wait"
    /\ last' = Ret("MessageQueueThread", NoCid, "wait")
    /\ UNCHANGED <<DispatchFrame, dispatching, mpscq, hist, count>>

MqWoken ==
    /\ fault = "none"
    /\ mq_thd = "woken"
    /\ mq_thd' = IF shutdown THEN "exited" ELSE "count"
    /\ last' = Ret("MessageQueueThread", NoCid, IF shutdown THEN "exit" ELSE "woken")
    /\ UNCHANGED <<DispatchFrame, dispatching, mpscq, hist, count>>

\* The pop taking the record pushed last instead of the oldest.
MqPopNewest ==
    /\ fault = "none"
    /\ mq_thd = "pop"
    /\ IF mpscq # <<>>
       THEN /\ dispatching' = mpscq[Len(mpscq)]
            /\ mpscq' = SubSeq(mpscq, 1, Len(mpscq) - 1)
            /\ count' = count - 1
            /\ mq_thd' = "call"
            /\ last' = Ret("MessageQueueThread", NoCid, "pop")
       ELSE /\ mq_thd' = "top"
            /\ last' = Ret("MessageQueueThread", NoCid, "null")
            /\ UNCHANGED <<dispatching, mpscq, count>>
    /\ UNCHANGED <<DispatchFrame, hist>>

\* auto n = _mpscq.pop(); if (msg != nullptr) { _count.FetchSub(1); Dispatch(msg)
MqPop ==
    /\ fault = "none"
    /\ mq_thd = "pop"
    /\ IF mpscq # <<>>
       THEN /\ dispatching' = Head(mpscq)
            /\ mpscq' = Tail(mpscq)
            /\ count' = count - 1
            /\ mq_thd' = "call"
            /\ last' = Ret("MessageQueueThread", NoCid, "pop")
       ELSE /\ mq_thd' = "top"
            /\ last' = Ret("MessageQueueThread", NoCid, "null")
            /\ UNCHANGED <<dispatching, mpscq, count>>
    /\ UNCHANGED <<DispatchFrame, hist>>

\* void TcpServer::Dispatch(struct TcpMessageNode* msg): which callback a record
\* of type `type' invokes.
Dispatch(type) ==
    CASE type = "kNewConnection" -> "OnConnected"
      [] type = "kRecvAMessage" -> "OnMessageReceived"
      [] type = "kCloseClient" -> "OnClosed"
      [] OTHER -> "log_error"

\* The callback returns; delete msg; RaptorMutexUnlock(_mutex);
MqCall ==
    /\ fault = "none"
    /\ mq_thd = "call"
    /\ last' = Ret(Dispatch(dispatching.type), dispatching.cid, "none")
    /\ hist' = IF hist.on
                THEN [hist EXCEPT !.delivered =
                         Append(@, [callback |-> Dispatch(dispatching.type),
                                    cid |-> dispatching.cid])]
                ELSE hist
    /\ dispatching' = NoMsg
    /\ mq_thd' = "top"
    /\ UNCHANGED <<DispatchFrame, mpscq, count>>

(***************************************************************************)
(* The public calls that take a cid.  They may come from any thread, also  *)
(* from an application callback and while another thread is in Shutdown.   *)
(***************************************************************************)
\* The mutexes the dispatch thread holds at each position of
\* MessageQueueThread: _mutex from RaptorMutexLock(_mutex) to
\* RaptorMutexUnlock(_mutex), the callback included, given up only while the
\* thread sleeps in _cv.Wait(&_mutex).
DispatchHolds ==
    IF mq_thd \in {"count", "towait", "woken", "pop", "call"} THEN {"_mutex"} ELSE {}

\* A push that takes _mutex around _cv.Signal().
PushLocksMutex == {"_mutex"}

\* The mutexes OnConnectionArrived, OnDataReceived and OnConnectionClosed take:
\* none; they push, add one to _count and signal _cv.
PushLocks == {}

\* A caller can take `locks': the dispatch thread holds none of them.
Free(locks) == locks \cap DispatchHolds = {}

\* The forged handle 0xDEADBEEFDEADBEEF.
ForgedCid == <<57005, 48879, 57005, 48879>>

\* The cids a caller passes: the cid of every slot index up to max_connections'
\* largest value, the sentinel and the forged handle.
CallCids ==
    {CidOfSlot(i) : i \in 0..MaxConnections} \cup {InvalidConnectionId, ForgedCid}

\* What reading _mgr[index] yields: the slot, or, past the end of the vector,
\* whatever the memory holds: a null pointer or garbage.
SlotReads(index) ==
    IF index < Len(mgr) THEN {mgr[index + 1].first} ELSE {0, -1}

UserFrame == <<client, platform, lifecycle, dispatching, sd, now, accepted, tags, drained>>

\* The accessors without `if (_mgr[index].first)': the call goes through the
\* pointer whatever it holds.
AccessNoNullTest(op, cid, results) ==
    /\ fault = "none"
    /\ LET index == CheckConnectionId(cid) IN
       IF index = InvalidIndex
       THEN /\ last' = Ret(op, cid, "false")
            /\ UNCHANGED fault
       ELSE \E conn \in SlotReads(U32Val(index)) :
              IF conn = 0
              THEN /\ last' = Ret(op, cid, "crash")
                   /\ fault' = "null_deref"
              ELSE IF conn = -1
              THEN /\ last' = Ret(op, cid, "crash")
                   /\ fault' = "out_of_range"
              ELSE /\ \E r \in results : last' = Reached(op, cid, r, conn)
                   /\ UNCHANGED fault
    /\ UNCHANGED <<UserFrame, mq_thd, tables, mpscq, hist, count, shut, expired, pending, checking>>

\* Send, SendWithHeader, SetUserData, GetUserData, SetExtendInfo, GetExtendInfo:
\* validate, read the slot (Linux: without _conn_mtx; Windows: GetConnection),
\* call into the connection.  `results' are the values the connection's
\* method can make the call return.
Access(op, cid, results) ==
    /\ fault = "none"
    /\ LET index == CheckConnectionId(cid) IN
       IF index = InvalidIndex
       THEN /\ last' = Ret(op, cid, "false")
            /\ UNCHANGED fault
       ELSE /\ Free(IF platform = "windows" THEN {"_conn_mtx"} ELSE {})
            /\ \E conn \in SlotReads(U32Val(index)) :
              IF conn = 0
              THEN /\ last' = Ret(op, cid, "false")
                   /\ UNCHANGED fault
              ELSE IF conn = -1
              THEN /\ last' = Ret(op, cid, "crash")
                   /\ fault' = "out_of_range"
              ELSE /\ \E r \in results : last' = Reached(op, cid, r, conn)
                   /\ UNCHANGED fault
    /\ UNCHANGED <<UserFrame, mq_thd, tables, mpscq, hist, count, shut, expired, pending, checking>>

\* bool TcpServer::Send(ConnectionId cid, const void* buf, size_t len)
Send(cid) == Access("Send", cid, {"true", "false"})

\* bool TcpServer::SendWithHeader(cid, hdr, hdr_len, data, data_len), Windows
SendWithHeader(cid) ==
    /\ platform = "windows"
    /\ Access("SendWithHeader", cid, {"true", "false"})

SetUserData(cid) == Access("SetUserData", cid, {"true"})

GetUserData(cid) == Access("GetUserData", cid, {"true"})

SetExtendInfo(cid) == Access("SetExtendInfo", cid, {"true"})

GetExtendInfo(cid) == Access("GetExtendInfo", cid, {"true"})

\* bool TcpServer::CloseConnection(ConnectionId cid), Linux
LinuxCloseConnection(cid) ==
    /\ fault = "none"
    /\ platform = "linux"
    /\ LET index == CheckConnectionId(cid) IN
       IF index = InvalidIndex
       THEN /\ last' = Ret("CloseConnection", cid, "false")
            /\ UNCHANGED <<mq_thd, tables, mpscq, hist, count, shut, expired, fault>>
       ELSE /\ Free({"_conn_mtx"})
            /\ \E conn \in SlotReads(U32Val(index)) :
              IF conn = 0
              THEN /\ last' = Ret("CloseConnection", cid, "true")
                   /\ UNCHANGED <<mq_thd, tables, mpscq, hist, count, shut, expired, fault>>
              ELSE IF conn = -1
              THEN /\ last' = Ret("CloseConnection", cid, "crash")
                   /\ fault' = "out_of_range"
                   /\ UNCHANGED <<mq_thd, tables, mpscq, hist, count, shut, expired>>
              ELSE /\ Free(PushLocks)
                   /\ Commit(LinuxDeleteConnection(
                          ConnectionShutdown(Current, conn, U32Val(index), FALSE),
                          U32Val(index)))
                   /\ last' = Reached("CloseConnection", cid, "true", conn)
    /\ UNCHANGED <<UserFrame, pending, checking>>

\* A Windows handler's first half: CheckConnectionId, GetConnection (the slot
\* read under _conn_mtx, the shared_ptr copied), Shutdown on the copy.  The
\* handler is then left with DeleteConnection(index) to call.
WindowsEvict(thread, op, cid, notify, invalid, empty) ==
    /\ fault = "none"
    /\ platform = "windows"
    /\ pending[thread] = Idle
    /\ LET index == CheckConnectionId(cid) IN
       IF index = InvalidIndex
       THEN /\ last' = Ret(op, cid, invalid)
            /\ UNCHANGED <<mq_thd, tables, mpscq, hist, count, shut, expired, fault, pending>>
       ELSE /\ Free({"_conn_mtx"})
            /\ \E conn \in SlotReads(U32Val(index)) :
              IF conn = 0
              THEN /\ last' = Ret(op, cid, empty)
                   /\ UNCHANGED <<mq_thd, tables, mpscq, hist, count, shut, expired, fault,
                                  pending>>
              ELSE IF conn = -1
              THEN /\ last' = Ret(op, cid, "crash")
                   /\ fault' = "out_of_range"
                   /\ UNCHANGED <<mq_thd, tables, mpscq, hist, count, shut, expired, pending>>
              ELSE /\ Free(PushLocks)
                   /\ Commit(ConnectionShutdown(Current, conn, U32Val(index), notify))
                   /\ pending' = [pending EXCEPT ![thread] =
                          [op |-> op, index |-> U32Val(index), next |-> "delete",
                           ret |-> empty, conn |-> conn]]
                   /\ last' = Reached(op, cid, "shutdown", conn)
    /\ UNCHANGED <<UserFrame, checking>>

\* bool TcpServer::CloseConnection(ConnectionId cid), Windows, up to
\* con->Shutdown(false)
WindowsCloseConnection(cid) ==
    WindowsEvict("user", "CloseConnection", cid, FALSE, "false", "true")

\* RefreshTime without _timeout_record_list.erase(_mgr[index].second).
RefreshTimeNoErase(s, index) ==
    LET slot == s.mgr[index + 1]
        deadline_seconds == now + options.connection_timeout IN
    IF slot.first = 0 THEN s
    ELSE [s EXCEPT !.tl = TimeoutInsert(s.tl, deadline_seconds, index),
                   !.mgr[index + 1].second = deadline_seconds]

\* void TcpServer::RefreshTime(uint32_t index), Windows
RefreshTime(s, index) ==
    LET slot == s.mgr[index + 1]
        deadline_seconds == now + options.connection_timeout IN
    IF slot.first = 0 THEN s
    ELSE [s EXCEPT !.tl = TimeoutInsert(TimeoutErase(s.tl, slot.second, index),
                                        deadline_seconds, index),
                   !.mgr[index + 1].second = deadline_seconds]

\* A Windows handler's second half: DeleteConnection(index) or
\* RefreshTime(index), each under _conn_mtx, and the return.
WindowsFinish(thread) ==
    /\ fault = "none"
    /\ platform = "windows"
    /\ pending[thread] # Idle
    /\ pending[thread].next \in {"delete", "refresh"}
    /\ Free({"_conn_mtx"})
    /\ LET p == pending[thread] IN
       \E conn \in SlotReads(p.index) :
         IF p.index >= Len(mgr) /\ conn = -1
         THEN /\ fault' = "out_of_range"
              /\ last' = Ret(p.op, CidOfSlot(p.index), "crash")
              /\ UNCHANGED <<mq_thd, tables, mpscq, hist, count, shut, expired>>
         ELSE IF p.index >= Len(mgr)
         THEN /\ last' = Ret(p.op, CidOfSlot(p.index), p.ret)
              /\ UNCHANGED <<mq_thd, tables, mpscq, hist, count, shut, expired, fault>>
         ELSE /\ Commit(IF p.next = "delete"
                        THEN WindowsDeleteConnection(Current, p.index)
                        ELSE RefreshTime(Current, p.index))
              /\ last' = Ret(p.op, CidOfSlot(p.index), p.ret)
    /\ pending' = [pending EXCEPT ![thread] = Idle]
    /\ UNCHANGED <<UserFrame, checking>>

CloseConnection(cid) == LinuxCloseConnection(cid) \/ WindowsCloseConnection(cid)

(***************************************************************************)
(* internal::IAcceptor: the listener's thread.                             *)
(***************************************************************************)
\* The table after `if (_free_index_list.empty()) { ... resize ... }'.
Grow(s) ==
    IF s.fl # <<>> THEN s
    ELSE LET cnt == Len(s.mgr)
             expand == IF cnt * 2 < options.max_connections
                       THEN cnt * 2 ELSE options.max_connections IN
         [s EXCEPT !.mgr = Resize(s.mgr, expand),
                   !.fl = s.fl \o IndexRange(cnt, expand)]

\* The first test with _mgr.size() > _options.max_connections.
RefusedAboveCap(s) == s.fl = <<>> /\ Len(s.mgr) > options.max_connections

\* The first test of OnNewConnection: the connection is refused.
Refused(s) == s.fl = <<>> /\ Len(s.mgr) >= options.max_connections

\* Storing the connection and its timeout entry in the slot.
Install(s, index, conn) ==
    LET deadline_seconds == now + options.connection_timeout IN
    [s EXCEPT !.mgr[index + 1] = [first |-> conn, second |-> deadline_seconds],
              !.tl = TimeoutInsert(s.tl, deadline_seconds, index)]

\* void TcpServer::OnNewConnection(sock, listen_port, addr), under _conn_mtx.
\* Connection::Init reports the arrival.  Windows: `async_recv' is what
\* conn->AsyncRecv() returned.
OnNewConnection ==
    /\ fault = "none"
    /\ listener = "listening"
    /\ accepted < MaxAccepts
    /\ Len(mpscq) < MaxQueue
    /\ IF Refused(Current)
       THEN /\ last' = Ret("OnNewConnection", NoCid, "refused")
            /\ UNCHANGED <<mq_thd, tables, mpscq, hist, count, shut, expired, fault,
                           accepted, tags>>
       ELSE LET g == Grow(Current) IN
            IF g.fl = <<>>
            THEN \* _free_index_list.front() of an empty list
                 /\ fault' = "empty_front"
                 /\ last' = Ret("OnNewConnection", NoCid, "crash")
                 /\ UNCHANGED <<mq_thd, tables, mpscq, hist, count, shut, expired,
                                accepted, tags>>
            ELSE LET index == Head(g.fl)
                     conn == accepted + 1
                     cid == BuildConnectionId(magic_number, ListenPort, index)
                     a == OnConnectionArrived([g EXCEPT !.fl = Tail(g.fl)], cid,
                                              conn) IN
                 /\ accepted' = conn
                 /\ tags' = tags \cup {index}
                 /\ IF platform = "linux"
                    THEN /\ Commit(Install(a, index, conn))
                         /\ last' = Reached("OnNewConnection", cid, "accepted", conn)
                    ELSE \E async_recv \in BOOLEAN :
                           IF async_recv
                           THEN /\ Commit([ConnectionShutdown(a, conn, index, TRUE)
                                              EXCEPT !.fl = Append(@, index),
                                                     !.shut = @ \ {conn},
                                                     !.expired = @ \cup {cid}])
                                /\ last' = Reached("OnNewConnection", cid, "dropped", conn)
                           ELSE /\ Commit(Install(a, index, conn))
                                /\ last' = Reached("OnNewConnection", cid, "accepted", conn)
    /\ UNCHANGED <<client, platform, lifecycle, dispatching, sd, now, drained, pending, checking>>

(***************************************************************************)
(* The I/O engine's threads: events carry the cid of a socket that was     *)
(* added to the engine, also after its connection is gone.                 *)
(***************************************************************************)
EventCids == {CidOfSlot(i) : i \in tags}

IoFrame == <<client, platform, lifecycle, dispatching, sd, now, accepted, tags, drained>>

\* void TcpServer::OnErrorEvent(void* ptr), Linux
LinuxOnErrorEvent(cid) ==
    /\ fault = "none"
    /\ platform = "linux"
    /\ io_thread = "running"
    /\ LET index == CheckConnectionId(cid) IN
       IF index = InvalidIndex
       THEN /\ last' = Ret("OnErrorEvent", cid, "invalid")
            /\ UNCHANGED <<mq_thd, tables, mpscq, hist, count, shut, expired, fault>>
       ELSE \E conn \in SlotReads(U32Val(index)) :
              IF conn = 0
              THEN /\ last' = Ret("OnErrorEvent", cid, "none")
                   /\ UNCHANGED <<mq_thd, tables, mpscq, hist, count, shut, expired, fault>>
              ELSE IF conn = -1
              THEN /\ last' = Ret("OnErrorEvent", cid, "crash")
                   /\ fault' = "out_of_range"
                   /\ UNCHANGED <<mq_thd, tables, mpscq, hist, count, shut, expired>>
              ELSE /\ Commit(LinuxDeleteConnection(
                          ConnectionShutdown(Current, conn, U32Val(index), TRUE),
                          U32Val(index)))
                   /\ last' = Reached("OnErrorEvent", cid, "evicted", conn)
    /\ UNCHANGED <<IoFrame, pending, checking>>

\* void TcpServer::OnErrorEvent(void* ptr, size_t), Windows, up to
\* con->Shutdown(true)
WindowsOnErrorEvent(cid) ==
    /\ io_thread = "running"
    /\ WindowsEvict("io", "OnErrorEvent", cid, TRUE, "invalid", "none")

OnErrorEvent(cid) == LinuxOnErrorEvent(cid) \/ WindowsOnErrorEvent(cid)

\* The connection's DoRecvEvent/DoSendEvent (OnRecvEvent/OnSendEvent): it
\* frames `messages' messages and hands each to OnDataReceived.
RECURSIVE Deliver(_, _, _, _)
Deliver(s, cid, conn, messages) ==
    IF messages = 0 THEN s
    ELSE Deliver(OnDataReceived(s, cid, conn), cid, conn, messages - 1)

\* OnRecvEvent and OnSendEvent after the lock, with the deadline left as it
\* was when DoRecvEvent()/DoSendEvent() succeeds.
LinuxIoEventNoRefresh(s, index, ok, messages) ==
    IF ~InRange(s, index) THEN Faulted(s, "out_of_range")
    ELSE IF s.mgr[index + 1].first = 0 THEN Faulted(s, "null_deref")
    ELSE LET d == Deliver(s, CidOfSlot(index), s.mgr[index + 1].first, messages) IN
         IF ~ok THEN ShutdownAndDelete(d, index, TRUE) ELSE d

\* OnRecvEvent and OnSendEvent after the lock, Linux: `ok' is what
\* DoRecvEvent()/DoSendEvent() returned.
LinuxIoEvent(s, index, ok, messages) ==
    IF ~InRange(s, index) THEN Faulted(s, "out_of_range")
    ELSE IF s.mgr[index + 1].first = 0 THEN Faulted(s, "null_deref")
    ELSE LET d == Deliver(s, CidOfSlot(index), s.mgr[index + 1].first, messages) IN
         IF ~ok THEN ShutdownAndDelete(d, index, TRUE)
         ELSE LET deadline_seconds == now + options.connection_timeout IN
              [d EXCEPT !.tl = TimeoutInsert(
                                   TimeoutErase(d.tl, d.mgr[index + 1].second, index),
                                   deadline_seconds, index),
                        !.mgr[index + 1].second = deadline_seconds]

\* void TcpServer::OnRecvEvent(void* ptr) / OnSendEvent(void* ptr), Linux
LinuxOnIoEvent(op, cid, messages) ==
    /\ fault = "none"
    /\ platform = "linux"
    /\ io_thread = "running"
    /\ Len(mpscq) + messages <= MaxQueue
    /\ LET index == CheckConnectionId(cid) IN
       IF index = InvalidIndex
       THEN /\ last' = Ret(op, cid, "invalid")
            /\ UNCHANGED <<mq_thd, tables, mpscq, hist, count, shut, expired, fault>>
       ELSE \E ok \in BOOLEAN :
              LET r == LinuxIoEvent(Current, U32Val(index), ok, messages) IN
              /\ Commit(r)
              /\ last' = Ret(op, cid, IF r.fault # "none" THEN "crash"
                                      ELSE IF ok THEN "refreshed" ELSE "evicted")
    /\ UNCHANGED <<IoFrame, pending, checking>>

\* void TcpServer::OnRecvEvent / OnSendEvent(void* ptr, size_t), Windows, up to
\* RefreshTime(index) or DeleteConnection(index)
WindowsOnIoEvent(op, cid, messages) ==
    /\ fault = "none"
    /\ platform = "windows"
    /\ io_thread = "running"
    /\ pending["io"] = Idle
    /\ Len(mpscq) + messages <= MaxQueue
    /\ LET index == CheckConnectionId(cid) IN
       IF index = InvalidIndex
       THEN /\ last' = Ret(op, cid, "invalid")
            /\ UNCHANGED <<mq_thd, tables, mpscq, hist, count, shut, expired, fault, pending>>
       ELSE \E conn \in SlotReads(U32Val(index)) :
              IF conn = 0
              THEN /\ last' = Ret(op, cid, "none")
                   /\ UNCHANGED <<mq_thd, tables, mpscq, hist, count, shut, expired, fault,
                                  pending>>
              ELSE IF conn = -1
              THEN /\ last' = Ret(op, cid, "crash")
                   /\ fault' = "out_of_range"
                   /\ UNCHANGED <<mq_thd, tables, mpscq, hist, count, shut, expired, pending>>
              ELSE \E ok \in BOOLEAN :
                     LET d == Deliver(Current, CidOfSlot(U32Val(index)), conn,
                                      messages) IN
                     /\ Commit(IF ok THEN d
                               ELSE ConnectionShutdown(d, conn, U32Val(index), TRUE))
                     /\ pending' = [pending EXCEPT !["io"] =
                            [op |-> op, index |-> U32Val(index),
                             next |-> IF ok THEN "refresh" ELSE "delete",
                             ret |-> IF ok THEN "refreshed" ELSE "evicted",
                             conn |-> conn]]
                     /\ last' = Reached(op, cid, IF ok THEN "ok" ELSE "shutdown", conn)
    /\ UNCHANGED <<IoFrame, checking>>

OnRecvEvent(cid) ==
    \E messages \in 0..1 :
        \/ LinuxOnIoEvent("OnRecvEvent", cid, messages)
        \/ WindowsOnIoEvent("OnRecvEvent", cid, messages)

OnSendEvent(cid) ==
    \/ LinuxOnIoEvent("OnSendEvent", cid, 0)
    \/ WindowsOnIoEvent("OnSendEvent", cid, 0)

\* The least number of seconds between two sweeps: "At least 1s to check once"
\* (Linux), "At least 3s to check once" (Windows).
MinSweepInterval == IF platform = "linux" THEN 1 ELSE 3

\* void TcpServer::OnCheckingEvent(time_t current)
OnCheckingEvent(current) ==
    /\ fault = "none"
    /\ io_thread = "running"
    /\ IF current - last_timeout_time < MinSweepInterval
       THEN /\ last' = Ret("OnCheckingEvent", NoCid, "skipped")
            /\ UNCHANGED <<mq_thd, tables, mpscq, hist, count, shut, expired, fault,
                           last_timeout_time>>
       ELSE /\ last_timeout_time' = current
            /\ Commit(Sweep(Current, timeout_record_list, current))
            /\ last' = Ret("OnCheckingEvent", NoCid, "swept")
    /\ UNCHANGED <<client, platform, shutdown, options, magic_number, listener, io_thread,
                   inits, dispatching, sd, now, accepted, tags, drained, pending, checking>>

\* OnCheckingEvent as an engine thread executes it, in two steps.  The first is
\* the test `current - _last_timeout_time.Load() < 1' (`< 3' on Windows):
\* the handler returns, or goes on with the value of `current' it was given.
OnCheckingEventTest(thread, current) ==
    /\ fault = "none"
    /\ io_thread = "running"
    /\ checking[thread] = NotChecking
    /\ IF current - last_timeout_time < MinSweepInterval
       THEN /\ last' = Ret("OnCheckingEvent", NoCid, "skipped")
            /\ UNCHANGED checking
       ELSE /\ last' = Ret("OnCheckingEvent", NoCid, "passed")
            /\ checking' = [checking EXCEPT ![thread] = current]
    /\ UNCHANGED <<client, platform, lifecycle, mq_thd, dispatching, tables, mpscq, hist,
                   count, sd, now, accepted, tags, drained, shut, expired, fault,
                   pending>>

\* The second step: `_last_timeout_time.Store(current)', then the sweep under
\* _conn_mtx.  Nothing orders the Load of one thread after the Store of another.
OnCheckingEventSweep(thread) ==
    /\ fault = "none"
    /\ checking[thread] # NotChecking
    /\ last_timeout_time' = checking[thread]
    /\ Commit(Sweep(Current, timeout_record_list, checking[thread]))
    /\ checking' = [checking EXCEPT ![thread] = NotChecking]
    /\ last' = Ret("OnCheckingEvent", NoCid, "swept")
    /\ UNCHANGED <<client, platform, shutdown, options, magic_number, listener, io_thread,
                   inits, dispatching, sd, now, accepted, tags, drained, pending>>

\* The calls that reach into a connection through its cid.
SteppedOps == {"Send", "SetUserData", "GetUserData", "SetExtendInfo", "GetExtendInfo"}

\* The slots that hold connection `conn', and on Windows the handlers that
\* hold a copy of its shared_ptr: while there is one the object exists.
Owners(conn) ==
    {<<"slot", i>> : i \in {j \in 1..Len(mgr) : mgr[j].first = conn}}
        \cup (IF platform = "windows"
              THEN {<<"handler", t>> :
                       t \in {u \in Threads : pending[u] # Idle /\ pending[u].conn = conn}}
              ELSE {})

\* The connection has been deleted (Linux: `delete _mgr[index].first';
\* Windows: the last shared_ptr was reset).
Destroyed(conn) == Owners(conn) = {}

\* Send, SetUserData, GetUserData, SetExtendInfo, GetExtendInfo as the calling
\* thread executes them, in two steps.  The first validates and reads the
\* slot: `if (_mgr[index].first)' with no mutex held on Linux, GetConnection
\* (a shared_ptr copied under _conn_mtx) on Windows.
AccessRead(op, cid) ==
    /\ fault = "none"
    /\ pending["user"] = Idle
    /\ LET index == CheckConnectionId(cid) IN
       IF index = InvalidIndex
       THEN /\ last' = Ret(op, cid, "false")
            /\ UNCHANGED <<fault, pending>>
       ELSE /\ Free(IF platform = "windows" THEN {"_conn_mtx"} ELSE {})
            /\ \E conn \in SlotReads(U32Val(index)) :
              IF conn = 0
              THEN /\ last' = Ret(op, cid, "false")
                   /\ UNCHANGED <<fault, pending>>
              ELSE IF conn = -1
              THEN /\ last' = Ret(op, cid, "crash")
                   /\ fault' = "out_of_range"
                   /\ UNCHANGED pending
              ELSE /\ pending' = [pending EXCEPT !["user"] =
                          [op |-> op, index |-> U32Val(index), next |-> "call",
                           ret |-> "true", conn |-> conn]]
                   /\ last' = Reached(op, cid, "read", conn)
                   /\ UNCHANGED fault
    /\ UNCHANGED <<UserFrame, mq_thd, tables, mpscq, hist, count, shut, expired,
                   checking>>

\* The second step calls into the connection.  Windows calls through its
\* copy.  Linux evaluates `_mgr[index].first->Send(buf, len)': the pointer it
\* calls through is the one it tested or the one the slot holds by now; a null
\* pointer or a deleted connection is undefined behaviour.
AccessCall ==
    /\ fault = "none"
    /\ pending["user"] # Idle
    /\ pending["user"].next = "call"
    /\ LET p == pending["user"]
           cid == CidOfSlot(p.index)
           pointers == IF platform = "windows" \/ p.index >= Len(mgr) THEN {p.conn}
                       ELSE {p.conn, mgr[p.index + 1].first} IN
       \E conn \in pointers :
           IF conn = 0
           THEN /\ fault' = "null_deref"
                /\ last' = Ret(p.op, cid, "crash")
           ELSE IF platform = "linux" /\ Destroyed(conn)
           THEN /\ fault' = "use_after_free"
                /\ last' = Reached(p.op, cid, "crash", conn)
           ELSE /\ \E r \in IF p.op = "Send" THEN {"true", "false"} ELSE {"true"} :
                       last' = Reached(p.op, cid, r, conn)
                /\ UNCHANGED fault
    /\ pending' = [pending EXCEPT !["user"] = Idle]
    /\ UNCHANGED <<UserFrame, mq_thd, tables, mpscq, hist, count, shut, expired,
                   checking>>

\* The clock is seen `seconds' later.
Tick(seconds) ==
    /\ fault = "none"
    /\ now < StartTime + MaxTicks * seconds
    /\ now' = now + seconds
    /\ last' = Ret("Tick", NoCid, "none")
    /\ UNCHANGED <<client, platform, lifecycle, mq_thd, dispatching, tables, mpscq, hist,
                   count, sd, accepted, tags, drained, shut, expired, fault, pending, checking>>

(***************************************************************************)
(* The server.                                                             *)
(***************************************************************************)
\* Every thread at its own pace, either build.
Next ==
    \/ TcpServerInit
    \/ TcpServerStart
    \/ ShutdownBegin
    \/ ShutdownListener
    \/ ShutdownEngine
    \/ ShutdownSignal
    \/ ShutdownJoin
    \/ ShutdownTeardown
    \/ ShutdownDrain
    \/ MqTop
    \/ MqCount
    \/ MqWait
    \/ MqWoken
    \/ MqPop
    \/ MqCall
    \/ \E cid \in CallCids : Send(cid)
    \/ \E cid \in CallCids : SendWithHeader(cid)
    \/ \E cid \in CallCids : SetUserData(cid)
    \/ \E cid \in CallCids : GetUserData(cid)
    \/ \E cid \in CallCids : SetExtendInfo(cid)
    \/ \E cid \in CallCids : GetExtendInfo(cid)
    \/ \E cid \in CallCids : CloseConnection(cid)
    \/ WindowsFinish("user")
    \/ OnNewConnection
    \/ \E cid \in EventCids : OnErrorEvent(cid)
    \/ \E cid \in EventCids : OnRecvEvent(cid)
    \/ \E cid \in EventCids : OnSendEvent(cid)
    \/ WindowsFinish("io")
    \/ OnCheckingEvent(now)
    \/ Tick(MinSweepInterval)

\* The dispatch thread has a step to take.
MqRunnable == mq_thd \in {"top", "count", "towait", "woken", "pop", "call"}

\* No thread is inside Shutdown and the dispatch thread has nothing to do.
Quiet == sd = "idle" /\ ~MqRunnable

LinuxInit == Init /\ platform = "linux"

WindowsInit == Init /\ platform = "windows"

(***************************************************************************)
(* Spec: the Linux build's slot table.  The dispatch thread keeps up and   *)
(* Shutdown is not overtaken: the dispatch thread is back in _cv.Wait (or  *)
(* has returned) and Shutdown has returned before another thread takes its *)
(* next step.  The clock is read once per sweep interval.                  *)
(***************************************************************************)
LinuxNext ==
    \/ ~MqRunnable /\ TcpServerInit
    \/ ~MqRunnable /\ TcpServerStart
    \/ ~MqRunnable /\ ShutdownBegin
    \/ ~MqRunnable /\ ShutdownListener
    \/ ~MqRunnable /\ ShutdownEngine
    \/ ~MqRunnable /\ ShutdownSignal
    \/ ~MqRunnable /\ ShutdownJoin
    \/ ~MqRunnable /\ ShutdownTeardown
    \/ ~MqRunnable /\ ShutdownDrain
    \/ MqTop
    \/ MqCount
    \/ MqWait
    \/ MqWoken
    \/ MqPop
    \/ MqCall
    \/ Quiet /\ \E cid \in CallCids : Send(cid)
    \/ Quiet /\ \E cid \in CallCids : SetUserData(cid)
    \/ Quiet /\ \E cid \in CallCids : GetUserData(cid)
    \/ Quiet /\ \E cid \in CallCids : SetExtendInfo(cid)
    \/ Quiet /\ \E cid \in CallCids : GetExtendInfo(cid)
    \/ Quiet /\ \E cid \in CallCids : LinuxCloseConnection(cid)
    \/ Quiet /\ OnNewConnection
    \/ Quiet /\ \E cid \in EventCids : LinuxOnErrorEvent(cid)
    \/ Quiet /\ \E cid \in EventCids, messages \in 0..1 :
                    LinuxOnIoEvent("OnRecvEvent", cid, messages)
    \/ Quiet /\ \E cid \in EventCids : LinuxOnIoEvent("OnSendEvent", cid, 0)
    \/ Quiet /\ OnCheckingEvent(now)
    \/ Quiet /\ Tick(MinSweepInterval)

Spec == LinuxInit /\ [][LinuxNext]_vars

(***************************************************************************)
(* SpecWindows: the Windows build's slot table under the same schedule;    *)
(* its handlers take _conn_mtx piecewise, so a caller's thread and a       *)
(* completion-port worker interleave between a handler's two halves.       *)
(***************************************************************************)
WindowsNext ==
    \/ ~MqRunnable /\ TcpServerInit
    \/ ~MqRunnable /\ TcpServerStart
    \/ ~MqRunnable /\ ShutdownBegin
    \/ ~MqRunnable /\ ShutdownListener
    \/ ~MqRunnable /\ ShutdownEngine
    \/ ~MqRunnable /\ ShutdownSignal
    \/ ~MqRunnable /\ ShutdownJoin
    \/ ~MqRunnable /\ ShutdownTeardown
    \/ ~MqRunnable /\ ShutdownDrain
    \/ MqTop
    \/ MqCount
    \/ MqWait
    \/ MqWoken
    \/ MqPop
    \/ MqCall
    \/ Quiet /\ \E cid \in CallCids : Send(cid)
    \/ Quiet /\ \E cid \in CallCids : SendWithHeader(cid)
    \/ Quiet /\ \E cid \in CallCids : WindowsCloseConnection(cid)
    \/ Quiet /\ WindowsFinish("user")
    \/ Quiet /\ OnNewConnection
    \/ Quiet /\ \E cid \in EventCids : WindowsOnErrorEvent(cid)
    \/ Quiet /\ \E cid \in EventCids, messages \in 0..1 :
                    WindowsOnIoEvent("OnRecvEvent", cid, messages)
    \/ Quiet /\ WindowsFinish("io")
    \/ Quiet /\ OnCheckingEvent(now)
    \/ Quiet /\ Tick(MinSweepInterval)

SpecWindows == WindowsInit /\ [][WindowsNext]_vars

(***************************************************************************)
(* SpecShutdown: the lifecycle and the dispatch thread of either build     *)
(* with every thread at its own pace: callers and events overtake Shutdown *)
(* between any two of its statements and the dispatch thread lags behind   *)
(* the producers.  The clock stands still and ShutdownAccepts connections  *)
(* arrive.                                                                 *)
(***************************************************************************)
ShutdownNext ==
    \/ TcpServerInit
    \/ TcpServerStart
    \/ ShutdownBegin
    \/ ShutdownListener
    \/ ShutdownEngine
    \/ ShutdownSignal
    \/ ShutdownJoin
    \/ ShutdownTeardown
    \/ ShutdownDrain
    \/ MqTop
    \/ MqCount
    \/ MqWait
    \/ MqWoken
    \/ MqPop
    \/ MqCall
    \/ \E cid \in CallCids : Send(cid)
    \/ \E cid \in CallCids : SendWithHeader(cid)
    \/ \E cid \in CallCids : CloseConnection(cid)
    \/ WindowsFinish("user")
    \/ accepted < ShutdownAccepts /\ OnNewConnection
    \/ \E cid \in EventCids : OnErrorEvent(cid)
    \/ \E cid \in EventCids : OnRecvEvent(cid)
    \/ WindowsFinish("io")

SpecShutdown == Init /\ [][ShutdownNext]_vars

(***************************************************************************)
(* SpecDispatch: the hand-off of event records to the application, either  *)
(* build, every thread at its own pace: the producers (the acceptor, the   *)
(* I/O engine, callers of CloseConnection, the sweep) run ahead of the      *)
(* dispatch thread.  A behaviour begins when Init and Start have returned  *)
(* and ends before Shutdown; it keeps the history of the first MaxPushes   *)
(* pushes and of the callbacks invoked.                                    *)
(***************************************************************************)
DispatchInit ==
    /\ platform \in Platforms
    /\ shutdown = FALSE
    /\ options = [max_connections |-> MaxConnections,
                  connection_timeout |-> MaxTimeout]
    /\ magic_number = MagicOf(StartTime)
    /\ last_timeout_time = StartTime
    /\ listener = "listening"
    /\ io_thread = "running"
    /\ mq_thd = "top"
    /\ dispatching = NoMsg
    /\ mgr = Resize(<<>>, RESERVED_CONNECTION_COUNT)
    /\ timeout_record_list = <<>>
    /\ free_index_list = IndexRange(0, RESERVED_CONNECTION_COUNT)
    /\ mpscq = <<>>
    /\ count = 0
    /\ sd = "idle"
    /\ now = StartTime
    /\ accepted = 0
    /\ inits = 1
    /\ tags = {}
    /\ shut = {}
    /\ expired = {}
    /\ drained = 0
    /\ fault = "none"
    /\ pending = [t \in Threads |-> Idle]
    /\ last = Ret("Start", NoCid, "ok")
    /\ hist = EmptyHistory
    /\ checking = [e \in Engines |-> NotChecking]
    /\ client = NewClient

\* The history has room for the records a handler may push.
Recording == Len(hist.pushed) < MaxPushes

DispatchNext ==
    \/ MqTop
    \/ MqCount
    \/ MqWait
    \/ MqWoken
    \/ MqPop
    \/ MqCall
    \/ Recording /\ \E cid \in EventCids : CloseConnection(cid)
    \/ WindowsFinish("user")
    \/ Recording /\ accepted < DispatchAccepts /\ OnNewConnection
    \/ Recording /\ \E cid \in EventCids : OnErrorEvent(cid)
    \/ Recording /\ \E cid \in EventCids : OnRecvEvent(cid)
    \/ WindowsFinish("io")
    \/ Recording /\ OnCheckingEvent(now)
    \/ Tick(MinSweepInterval)

SpecDispatch == DispatchInit /\ [][DispatchNext]_vars

(***************************************************************************)
(* SpecSweep: a running server of either build whose two engine threads    *)
(* call OnCheckingEvent with the clock value they see, each at its own     *)
(* pace, while connections are accepted and the dispatch thread runs.      *)
(***************************************************************************)
SweepNext ==
    \/ MqTop
    \/ MqCount
    \/ MqWait
    \/ MqWoken
    \/ MqPop
    \/ MqCall
    \/ accepted < DispatchAccepts /\ OnNewConnection
    \/ \E thread \in Engines : OnCheckingEventTest(thread, now)
    \/ \E thread \in Engines : OnCheckingEventSweep(thread)
    \/ Tick(MinSweepInterval)

SpecSweep == DispatchInit /\ [][SweepNext]_vars

(***************************************************************************)
(* SpecAccess: a running server of either build whose callers reach into   *)
(* connections through Send and the user-data calls, step by step, while   *)
(* the listener accepts and the engine's error events evict.               *)
(***************************************************************************)
AccessNext ==
    \/ MqTop
    \/ MqCount
    \/ MqWait
    \/ MqWoken
    \/ MqPop
    \/ MqCall
    \/ accepted < DispatchAccepts /\ OnNewConnection
    \/ \E op \in SteppedOps : \E cid \in EventCids : AccessRead(op, cid)
    \/ AccessCall
    \/ \E cid \in EventCids : OnErrorEvent(cid)
    \/ WindowsFinish("io")

SpecAccess == DispatchInit /\ [][AccessNext]_vars

(***************************************************************************)
(* SpecHandOff: the three statements of OnConnectionArrived, OnDataReceived *)
(* and OnConnectionClosed taken one at a time by two producer threads of a *)
(* running server of either build, against the dispatch thread.  No lock   *)
(* is held by a producer: _count is atomic, _mpscq.push is lock-free and   *)
(* _cv.Signal() is called without _mutex.                                  *)
(***************************************************************************)
\* The handlers that push an event record, and the type each one pushes.
PushHandlers == {"OnConnectionArrived", "OnDataReceived", "OnConnectionClosed"}

TypeOf(op) ==
    CASE op = "OnConnectionArrived" -> "kNewConnection"
      [] op = "OnDataReceived" -> "kRecvAMessage"
      [] op = "OnConnectionClosed" -> "kCloseClient"

\* The cids the connections of the reserved slots report.
HandOffCids == {CidOfSlot(0)}

HandOffFrame ==
    <<client, platform, lifecycle, tables, dispatching, sd, now, accepted, tags, drained,
      shut, expired, fault, checking>>

\* TcpMessageNode* msg = new TcpMessageNode; ...; _mpscq.push(&msg->node);
HandlerPush(thread, op, cid) ==
    /\ fault = "none"
    /\ pending[thread] = Idle
    /\ Recording
    /\ mpscq' = Append(mpscq, [type |-> TypeOf(op), cid |-> cid])
    /\ hist' = [hist EXCEPT !.pushed =
                   Append(@, [type |-> TypeOf(op), cid |-> cid, conn |-> 0])]
    /\ pending' = [pending EXCEPT ![thread] =
                      [op |-> op, index |-> 0, next |-> "FetchAdd",
                       ret |-> "none", conn |-> 0]]
    /\ last' = Ret(op, cid, "push")
    /\ UNCHANGED <<HandOffFrame, mq_thd, count>>

\* _count.FetchAdd(1, MemoryOrder::ACQ_REL);
HandlerFetchAdd(thread) ==
    /\ fault = "none"
    /\ pending[thread].next = "FetchAdd"
    /\ count' = count + 1
    /\ pending' = [pending EXCEPT ![thread].next = "Signal"]
    /\ last' = Ret(pending[thread].op, NoCid, "FetchAdd")
    /\ UNCHANGED <<HandOffFrame, mq_thd, mpscq, hist>>

\* _cv.Signal(): wakes the dispatch thread if it is blocked in _cv.Wait, and
\* is forgotten otherwise.
HandlerSignal(thread) ==
    /\ fault = "none"
    /\ pending[thread].next = "Signal"
    /\ mq_thd' = IF mq_thd = "wait" THEN "woken" ELSE mq_thd
    /\ pending' = [pending EXCEPT ![thread] = Idle]
    /\ last' = Ret(pending[thread].op, NoCid, "Signal")
    /\ UNCHANGED <<HandOffFrame, mpscq, count, hist>>

\* A step of the dispatch thread.
MessageQueueThread ==
    \/ MqTop
    \/ MqCount
    \/ MqWait
    \/ MqWoken
    \/ MqPop
    \/ MqCall

HandOffNext ==
    \/ MqTop
    \/ MqCount
    \/ MqWait
    \/ MqWoken
    \/ MqPop
    \/ MqCall
    \/ \E thread \in Threads, op \in PushHandlers, cid \in HandOffCids :
           HandlerPush(thread, op, cid)
    \/ \E thread \in Threads : HandlerFetchAdd(thread)
    \/ \E thread \in Threads : HandlerSignal(thread)

SpecHandOff == DispatchInit /\ [][HandOffNext]_vars

\* SpecHandOffFair: SpecHandOff with every thread scheduled: the dispatch
\* thread takes its next step unless it is blocked in _cv.Wait, and a handler
\* that has pushed goes on to FetchAdd and Signal.  Nothing obliges a
\* connection to report another event.
SpecHandOffFair ==
    /\ SpecHandOff
    /\ WF_vars(MessageQueueThread)
    /\ \A thread \in Threads : WF_vars(HandlerFetchAdd(thread))
    /\ \A thread \in Threads : WF_vars(HandlerSignal(thread))

(***************************************************************************)
(* SpecStop: Shutdown, statement by statement, against the dispatch thread *)
(* of a running server of either build, while the handlers that began      *)
(* before the flag was set finish their push.  SpecStopFair schedules      *)
(* every thread: the dispatch thread unless it is blocked in _cv.Wait, the *)
(* thread inside Shutdown unless it is blocked in _mq_thd.Join(), and a    *)
(* handler that has pushed.                                                *)
(***************************************************************************)
\* Event records pushed over one behaviour of SpecStop.
StopPushes == 2

\* A statement of Shutdown after `_shutdown = true'.
ShutdownStatement ==
    \/ ShutdownListener
    \/ ShutdownEngine
    \/ ShutdownSignal
    \/ ShutdownJoin
    \/ ShutdownTeardown
    \/ ShutdownDrain

StopNext ==
    \/ MqTop
    \/ MqCount
    \/ MqWait
    \/ MqWoken
    \/ MqPop
    \/ MqCall
    \/ ShutdownBegin
    \/ ShutdownListener
    \/ ShutdownEngine
    \/ ShutdownSignal
    \/ ShutdownJoin
    \/ ShutdownTeardown
    \/ ShutdownDrain
    \/ \E thread \in Threads, op \in PushHandlers, cid \in HandOffCids :
           /\ ~shutdown
           /\ Len(hist.pushed) < StopPushes
           /\ HandlerPush(thread, op, cid)
    \/ \E thread \in Threads : HandlerFetchAdd(thread)
    \/ \E thread \in Threads : HandlerSignal(thread)

SpecStop == DispatchInit /\ [][StopNext]_vars

SpecStopFair ==
    /\ SpecStop
    /\ WF_vars(MessageQueueThread)
    /\ WF_vars(ShutdownStatement)
    /\ \A thread \in Threads : WF_vars(HandlerFetchAdd(thread))
    /\ \A thread \in Threads : WF_vars(HandlerSignal(thread))

(***************************************************************************)
(* SpecTables: the slot table, the free-list and the timeout index of      *)
(* either build between Init and Shutdown, under the schedule of Spec:     *)
(* accepts, evictions by CloseConnection, by error events, by failed I/O   *)
(* events and by the sweep, refreshes and table growth.                    *)
(***************************************************************************)
TablesNext ==
    \/ ~MqRunnable /\ TcpServerInit
    \/ ~MqRunnable /\ TcpServerStart
    \/ MqTop
    \/ MqCount
    \/ MqWait
    \/ MqWoken
    \/ MqPop
    \/ MqCall
    \/ Quiet /\ \E cid \in CallCids : CloseConnection(cid)
    \/ Quiet /\ WindowsFinish("user")
    \/ Quiet /\ OnNewConnection
    \/ Quiet /\ \E cid \in EventCids : OnErrorEvent(cid)
    \/ Quiet /\ \E cid \in EventCids : OnRecvEvent(cid)
    \/ Quiet /\ \E cid \in EventCids : OnSendEvent(cid)
    \/ Quiet /\ WindowsFinish("io")
    \/ Quiet /\ OnCheckingEvent(now)
    \/ Quiet /\ Tick(MinSweepInterval)

SpecTables == Init /\ [][TablesNext]_vars

(***************************************************************************)
(* SpecCodec: CheckConnectionId as a function of the cid, _magic_number    *)
(* and _options.max_connections, on a server that Init has set up with any *)
(* magic number and any max_connections.                                   *)
(***************************************************************************)
CodecMagics == {0, MagicOf(StartTime), Limb - 1}

CodecMaxConnections == {0, 1, MaxConnections, Limb, Limb + 1}

CodecIndices ==
    {<<0, 0>>, <<0, 1>>, <<0, MaxConnections - 1>>, <<0, MaxConnections>>,
     <<0, Limb - 1>>, <<1, 0>>, <<1, 1>>, <<Limb - 1, Limb - 1>>}

CodecCids ==
    {<<m, p, i[1], i[2]>> :
        m \in CodecMagics, p \in {ListenPort, Limb - 1}, i \in CodecIndices}

CodecInit ==
    /\ platform \in Platforms
    /\ shutdown = FALSE
    /\ options \in {[max_connections |-> m, connection_timeout |-> 1] :
                        m \in CodecMaxConnections}
    /\ magic_number \in CodecMagics
    /\ last_timeout_time = StartTime
    /\ listener = "created"
    /\ io_thread = "created"
    /\ mq_thd = "created"
    /\ dispatching = NoMsg
    /\ mgr = Resize(<<>>, RESERVED_CONNECTION_COUNT)
    /\ timeout_record_list = <<>>
    /\ free_index_list = IndexRange(0, RESERVED_CONNECTION_COUNT)
    /\ mpscq = <<>>
    /\ count = 0
    /\ sd = "idle"
    /\ now = StartTime
    /\ accepted = 0
    /\ inits = 1
    /\ tags = {}
    /\ shut = {}
    /\ expired = {}
    /\ drained = 0
    /\ fault = "none"
    /\ pending = [t \in Threads |-> Idle]
    /\ last = Ret("Init", NoCid, "ok")
    /\ hist = NoHistory
    /\ checking = [e \in Engines |-> NotChecking]
    /\ client = NewClient

\* A call of CheckConnectionId(cid) and the index it returns.
CheckConnectionIdCall(cid) ==
    /\ last' = Ret("CheckConnectionId", cid, CheckConnectionId(cid))
    /\ UNCHANGED <<client, platform, lifecycle, mq_thd, dispatching, tables, mpscq, hist, count,
                   sd, now, accepted, tags, drained, shut, expired, fault, pending, checking>>

CodecNext == \E cid \in CodecCids : CheckConnectionIdCall(cid)

SpecCodec == CodecInit /\ [][CodecNext]_vars

(***************************************************************************)
(* The TCP client (src/unnamed/part_000, TcpClient).  One application      *)
(* thread calls Init, Connect, Send and Shutdown, one call after another;  *)
(* WorkThread runs on the thread Init starts.  client.thd is the worker's  *)
(* position:                                                               *)
(*   "none"    no thread was started                                      *)
(*   "top"     at while (!_shutdown)                                      *)
(*   "select"  at select(_fd + 1, &rfs, &wfs, NULL, &t)                    *)
(*   "io"      select reported the socket ready, at DoRecv() or DoSend()   *)
(*   "after"   left the loop, at if (_is_connected)                        *)
(*   "exited"  WorkThread has returned                                    *)
(* client.calls is the sequence of callbacks invoked since the last Init.  *)
(***************************************************************************)
\* Successful Init calls of the client over one behaviour.
MaxClientInits == 2
\* Packages DoRecv hands to OnMessageReceived after one Init.
MaxMessages == 2
\* Slices the send buffer holds (one Send adds a header and a body).
MaxSlices == 2
\* The descriptor AsyncConnect returns.
Socket == 3

\* Every variable of the server.
server ==
    <<platform, shutdown, options, magic_number, last_timeout_time, listener,
      io_thread, mq_thd, dispatching, mgr, timeout_record_list,
      free_index_list, mpscq, count, sd, now, accepted, inits, tags, shut,
      expired, drained, fault, pending, last, hist, checking>>

Call(callback, arg) == [callback |-> callback, arg |-> arg]

\* The packages handed to OnMessageReceived so far.
Received(c) ==
    Cardinality({i \in 1..Len(c.calls) : c.calls[i].callback = "OnMessageReceived"})

\* raptor_error TcpClient::Init(): refused while running; otherwise clears
\* _shutdown and _is_connected and starts WorkThread.
TcpClientInit ==
    /\ client.stop = "idle"
    /\ IF ~client.shutdown
       THEN UNCHANGED client
       ELSE /\ client.inits < MaxClientInits
            /\ client' = [client EXCEPT !.shutdown = FALSE,
                                        !.is_connected = FALSE,
                                        !.thd = "top",
                                        !.error_occurred = FALSE,
                                        !.readable = FALSE,
                                        !.inits = @ + 1,
                                        !.calls = <<>>]
    /\ UNCHANGED server

\* raptor_error TcpClient::Connect: refused before Init; a failed resolve
\* leaves _fd; AsyncConnect stores -1 and then, if connect is under way, the
\* new descriptor.
TcpClientConnect(result) ==
    /\ client.stop = "idle"
    /\ IF client.shutdown \/ result = "resolve_failed"
       THEN UNCHANGED client
       ELSE client' = [client EXCEPT !.fd = IF result = "ok" THEN Socket ELSE -1]
    /\ UNCHANGED server

\* bool TcpClient::Send: false when not online; otherwise appends the header
\* and the body to _snd_buffer.
TcpClientSend ==
    /\ client.stop = "idle"
    /\ IF client.fd = -1
       THEN UNCHANGED client
       ELSE /\ client.snd_buffer + 2 <= MaxSlices
            /\ client' = [client EXCEPT !.snd_buffer = @ + 2]
    /\ UNCHANGED server

\* void TcpClient::Shutdown(): if (!_shutdown) { _shutdown = true;
TcpClientShutdownBegin ==
    /\ client.stop = "idle"
    /\ IF client.shutdown
       THEN UNCHANGED client
       ELSE client' = [client EXCEPT !.shutdown = TRUE, !.stop = "join"]
    /\ UNCHANGED server

\* _thd.Join(); raptor_set_socket_shutdown(_fd); _fd = -1; the buffers cleared.
TcpClientShutdownJoin ==
    /\ client.stop = "join"
    /\ client.thd \in {"none", "exited"}
    /\ client' = [client EXCEPT !.fd = -1, !.snd_buffer = 0, !.stop = "idle"]
    /\ UNCHANGED server

\* while (!_shutdown)
WorkThreadTop ==
    /\ client.thd = "top"
    /\ client' = [client EXCEPT !.thd = IF client.shutdown THEN "after" ELSE "select"]
    /\ UNCHANGED server

\* The select step without `_is_connected = true'.
WorkThreadSelectNoMark(outcome, readable) ==
    /\ client.thd = "select"
    /\ client' =
         CASE outcome = "again" -> [client EXCEPT !.thd = "top"]
           [] outcome = "error" ->
                [client EXCEPT !.error_occurred = TRUE, !.thd = "after"]
           [] outcome = "ready" /\ ~client.is_connected ->
                [client EXCEPT !.calls = Append(@, Call("OnConnectResult", "true")),
                               !.thd = "top"]
           [] OTHER -> [client EXCEPT !.readable = readable, !.thd = "io"]
    /\ UNCHANGED server

\* int r = select(...) and what follows it up to DoRecv/DoSend.  r <= 0 with
\* EINTR, EWOULDBLOCK or EAGAIN in errno continues ("again"), r <= 0 otherwise
\* sets error_occurred and leaves the loop ("error"); r > 0 ("ready") reports
\* the first readiness as OnConnectResult(true) and continues, and any later
\* one goes on to the I/O.  While _fd is -1, FD_SET(_fd, ...) is undefined and
\* errno is whatever an earlier call left: every outcome is possible.
WorkThreadSelect(outcome, readable) ==
    /\ client.thd = "select"
    /\ client' =
         CASE outcome = "again" -> [client EXCEPT !.thd = "top"]
           [] outcome = "error" ->
                [client EXCEPT !.error_occurred = TRUE, !.thd = "after"]
           [] outcome = "ready" /\ ~client.is_connected ->
                [client EXCEPT !.is_connected = TRUE,
                               !.calls = Append(@, Call("OnConnectResult", "true")),
                               !.thd = "top"]
           [] OTHER -> [client EXCEPT !.readable = readable, !.thd = "io"]
    /\ UNCHANGED server

\* int TcpClient::DoRecv(): hands `messages' complete packages to
\* OnMessageReceived and returns `ret': 0, or -1 when the peer has closed, on
\* a receive error or on a package length <= 0.
DoRecv(c, messages, ret) ==
    [c EXCEPT !.calls = @ \o [i \in 1..messages |-> Call("OnMessageReceived", "none")],
              !.error_occurred = (ret = 0)]

\* int TcpClient::DoSend(): 0 on an empty buffer; otherwise sends slices
\* until the buffer is empty or send returns 0, and returns 0, or returns -1
\* when send would block; `left' slices stay in the buffer.
DoSend(c, left, ret) ==
    IF c.snd_buffer = 0
    THEN [c EXCEPT !.error_occurred = TRUE]
    ELSE [c EXCEPT !.snd_buffer = left, !.error_occurred = (ret = 0)]

\* if (FD_ISSET(_fd, &rfs)) error_occurred = (DoRecv() == 0);
\* else error_occurred = (DoSend() == 0);  if (!error_occurred) break;
WorkThreadIo(messages, left, ret) ==
    /\ client.thd = "io"
    /\ Received(client) + messages <= MaxMessages
    /\ left <= client.snd_buffer
    /\ LET c == IF client.readable THEN DoRecv(client, messages, ret)
                ELSE DoSend(client, left, ret) IN
       client' = [c EXCEPT !.thd = IF ~c.error_occurred THEN "after" ELSE "top"]
    /\ UNCHANGED server

\* if (_is_connected) _service->OnClosed(); else _service->OnConnectResult(false);
WorkThreadAfter ==
    /\ client.thd = "after"
    /\ client' = [client EXCEPT
                      !.calls = Append(@, IF client.is_connected
                                          THEN Call("OnClosed", "none")
                                          ELSE Call("OnConnectResult", "false")),
                      !.thd = "exited"]
    /\ UNCHANGED server

ClientNext ==
    \/ TcpClientInit
    \/ \E result \in {"resolve_failed", "connect_failed", "ok"} : TcpClientConnect(result)
    \/ TcpClientSend
    \/ TcpClientShutdownBegin
    \/ TcpClientShutdownJoin
    \/ WorkThreadTop
    \/ \E outcome \in {"again", "error", "ready"}, readable \in BOOLEAN :
           WorkThreadSelect(outcome, readable)
    \/ \E messages \in 0..MaxMessages, left \in 0..MaxSlices, ret \in {0, -1} :
           WorkThreadIo(messages, left, ret)
    \/ WorkThreadAfter

\* The client of a process whose server has been constructed.
ClientConstructed == LinuxInit /\ options.max_connections = 0 /\ magic_number = 0

SpecClient == ClientConstructed /\ [][ClientNext]_vars

(***************************************************************************)
(* Properties.                                                             *)
(***************************************************************************)
\* cid passes validation: it is not the sentinel, it carries the server's magic
\* and its index is below max_connections.
PassesValidation(cid) ==
    /\ cid # InvalidConnectionId
    /\ cid[1] = magic_number
    /\ \/ cid[3] < options.max_connections \div Limb
       \/ /\ cid[3] = options.max_connections \div Limb
          /\ cid[4] < options.max_connections % Limb

\* The slot index a validated cid names.
IndexOf(cid) == cid[3] * Limb + cid[4]

\* A validated cid names a slot of the table.
InTable(cid) == PassesValidation(cid) /\ IndexOf(cid) < Len(mgr)

\* The slot of a validated cid exists and holds no connection.
SlotEmpty(cid) == InTable(cid) /\ mgr[IndexOf(cid) + 1].first = 0

\* The slots that hold a connection.
Live == {i \in 1..Len(mgr) : mgr[i].first # 0}

\* Init and Start have succeeded and Shutdown has not been called.
Running == ~shutdown /\ listener = "listening" /\ io_thread = "running"

AccessOps ==
    {"Send", "SendWithHeader", "SetUserData", "GetUserData", "SetExtendInfo",
     "GetExtendInfo"}

\* C1: on a running server the number of live connections never exceeds
\* max_connections.
C1_LiveWithinCap == Running => Cardinality(Live) <= options.max_connections

\* C2: Send on a running server with a cid that fails validation, or whose slot
\* is empty, returns false, reaches no connection and leaves the slot table,
\* the timeout index, the free-list and the dispatch queue unchanged.
C2_SendRejected ==
    [][(/\ Running
        /\ last'.op = "Send"
        /\ ~PassesValidation(last'.cid) \/ SlotEmpty(last'.cid))
       => (/\ last'.ret = "false"
           /\ last'.conn = 0
           /\ UNCHANGED <<tables, mpscq, hist, count>>)]_vars

\* C2's case: with a connection live, Send was given the forged cid and
\* returned false.
C2_Witness ==
    /\ Running
    /\ Live # {}
    /\ last = Ret("Send", ForgedCid, "false")

\* C3: on a running server an accessor given a cid whose connection was evicted
\* since Init returns false and reaches no connection.
C3_ExpiredCidRejected ==
    (Running /\ last.op \in AccessOps /\ last.cid \in expired)
        => (last.ret = "false" /\ last.conn = 0)

\* C4: CheckConnectionId returns the index embedded in the cid exactly when the
\* cid passes validation, InvalidIndex in every other case, and changes nothing.
C4_CheckConnectionId ==
    [][last'.op = "CheckConnectionId"
       => (/\ last'.ret = IF PassesValidation(last'.cid)
                          THEN <<last'.cid[3], last'.cid[4]>>
                          ELSE InvalidIndex
           /\ UNCHANGED <<client, platform, lifecycle, mq_thd, dispatching, tables, mpscq, hist,
                          count, sd, now, accepted, tags, drained, shut, expired,
                          fault, pending, checking>>)]_vars

\* C4's case: CheckConnectionId returned the index of a cid that names the last
\* slot below max_connections.
C4_Witness ==
    /\ last.op = "CheckConnectionId"
    /\ PassesValidation(last.cid)
    /\ last.cid[4] = MaxConnections
    /\ last.ret = <<0, MaxConnections>>

\* C5: on a running server CloseConnection returns true exactly when the cid passes validation; a
\* live connection in the slot is then shut down (its close is reported), the
\* slot is empty, no timeout entry names the index and the index is on the
\* free-list once; when validation fails it returns false and changes nothing.
C5_CloseConnection ==
    [][(Running /\ last'.op = "CloseConnection")
       => IF PassesValidation(last'.cid)
          THEN /\ last'.ret = "true"
               /\ (InTable(last'.cid) /\ ~SlotEmpty(last'.cid))
                  => (/\ mgr'[IndexOf(last'.cid) + 1].first = 0
                      /\ \A k \in 1..Len(timeout_record_list') :
                             timeout_record_list'[k].value # IndexOf(last'.cid)
                      /\ Cardinality({k \in 1..Len(free_index_list') :
                             free_index_list'[k] = IndexOf(last'.cid)}) = 1
                      /\ mpscq' = Append(mpscq, [type |-> "kCloseClient",
                                                 cid |-> last'.cid]))
          ELSE /\ last'.ret = "false"
               /\ UNCHANGED <<tables, mpscq, hist, count>>]_vars

\* C6: on a running server a CloseConnection(cid) that follows a
\* CloseConnection(cid) returns what the first returned and leaves the slot
\* table, the free-list and the timeout index as the first left them.
C6_CloseConnectionTwice ==
    [][(/\ Running
        /\ last.op = "CloseConnection"
        /\ last.ret \in {"true", "false"}
        /\ last'.op = "CloseConnection"
        /\ last'.cid = last.cid)
       => (last'.ret = last.ret /\ UNCHANGED tables)]_vars

\* C7: a Send or SendWithHeader issued once Shutdown has set _shutdown, before
\* the table is torn down, with a cid that fails validation or names a slot of
\* the table, returns false.
C7_SendAfterShutdown ==
    (/\ sd \in {"listener", "engine", "signal", "join", "teardown"}
     /\ last.op \in {"Send", "SendWithHeader"}
     /\ ~PassesValidation(last.cid) \/ InTable(last.cid))
        => last.ret = "false"

\* Before the first Init: the constructor has run, nothing else.
Fresh == listener = "null"

\* After a Shutdown that has returned.
Stopped == shutdown /\ sd = "idle" /\ listener = "shutdown"

\* C8: Start on a Fresh, a Running or a Stopped server returns an error and
\* starts neither the listener, the I/O engine nor the dispatch thread.
C8_StartRejected ==
    [][(last'.op = "Start" /\ (Fresh \/ Running \/ Stopped))
       => (last'.ret = "error" /\ UNCHANGED <<listener, io_thread, mq_thd>>)]_vars

\* C9: Shutdown called with _shutdown set (after a completed Shutdown, or on a
\* server that was never initialised) changes nothing: no listener or engine
\* shutdown, no join, no teardown, no drain.
C9_ShutdownIdempotent ==
    [][(shutdown /\ sd = "idle" /\ last'.op = "Shutdown")
       => UNCHANGED <<client, platform, lifecycle, mq_thd, dispatching, tables, mpscq, hist,
                      count, sd, now, accepted, tags, drained, shut, expired,
                      fault, pending, checking>>]_vars

\* C9's case: a second Shutdown has returned on a server an earlier Shutdown
\* had stopped.
C9_Witness ==
    /\ Stopped
    /\ inits > 0
    /\ last = Ret("Shutdown", NoCid, "noop")

\* C10: once Shutdown has returned, the MPSC queue is empty and _count is zero.
C10_QueueEmptyAfterShutdown ==
    (shutdown /\ sd = "idle") => (mpscq = <<>> /\ count = 0)

\* C10's case: Shutdown has returned after deleting an undelivered record that
\* was queued when it was called and the record a live connection's shutdown
\* pushed during the teardown.
C10_Witness ==
    /\ last = Ret("Shutdown", NoCid, "done")
    /\ drained >= 2
    /\ mpscq = <<>>
    /\ count = 0

\* The application callbacks Dispatch invokes.
Callbacks == {"OnConnected", "OnMessageReceived", "OnClosed"}

\* C11: once Shutdown has returned no application callback is in progress and
\* none is invoked until the server is initialised again; a record the drain
\* loop of Shutdown takes off the queue is deleted, not handed to the dispatch
\* thread and not delivered.
C11_NoCallbackAfterShutdown ==
    /\ []((shutdown /\ sd = "idle") => (mq_thd # "call" /\ dispatching = NoMsg))
    /\ [][(shutdown /\ sd = "idle" /\ shutdown')
           => (last'.op \notin Callbacks /\ mq_thd' # "call")]_vars
    /\ [][(sd = "drain" /\ mpscq' # mpscq)
           => (/\ mpscq' = Tail(mpscq)
               /\ drained' = drained + 1
               /\ last'.op = "Shutdown"
               /\ UNCHANGED <<mq_thd, dispatching>>)]_vars

\* C11's case: Shutdown has returned on a server whose dispatch thread was
\* running; the thread has exited, no record is being dispatched and a record
\* that was still queued was deleted by the drain.
C11_Witness ==
    /\ Stopped
    /\ last = Ret("Shutdown", NoCid, "done")
    /\ mq_thd = "exited"
    /\ dispatching = NoMsg
    /\ drained = 1

\* The callback that belongs to a record of kind `type'.
CallbackOf(type) ==
    CASE type = "kNewConnection" -> "OnConnected"
      [] type = "kRecvAMessage" -> "OnMessageReceived"
      [] type = "kCloseClient" -> "OnClosed"

\* C12: the callbacks invoked so far are, in order, the deliveries of the
\* records pushed first: the i-th callback has the cid of the i-th record
\* pushed and is the callback of its kind.  So of two records (of one cid or of
\* two) the one pushed first is delivered first, and none is delivered twice:
\* every record pushed is delivered, held by the dispatch thread, queued or
\* deleted by Shutdown, in exactly one of these places.
C12_FifoDelivery ==
    hist.on =>
        /\ Len(hist.delivered) <= Len(hist.pushed)
        /\ \A i \in 1..Len(hist.delivered) :
               /\ hist.delivered[i].cid = hist.pushed[i].cid
               /\ hist.delivered[i].callback = CallbackOf(hist.pushed[i].type)
        /\ Len(hist.pushed) = Len(hist.delivered)
                                + (IF dispatching = NoMsg THEN 0 ELSE 1)
                                + Len(mpscq) + drained

\* C12's case: the arrival, a message and the close of one connection were
\* delivered in the order they were pushed while a later record waits in the
\* queue.
C12_Witness ==
    /\ hist.on
    /\ Len(hist.delivered) = 3
    /\ hist.delivered[1].callback = "OnConnected"
    /\ hist.delivered[2].callback = "OnMessageReceived"
    /\ hist.delivered[3].callback = "OnClosed"
    /\ hist.delivered[2].cid = hist.delivered[1].cid
    /\ hist.delivered[3].cid = hist.delivered[1].cid
    /\ Len(mpscq) = 1

\* The callbacks `callback' invoked so far for records that connection `conn'
\* pushed (the i-th callback delivers the i-th record pushed).
DeliveredOf(conn, callback) ==
    {i \in 1..Len(hist.delivered) :
        hist.pushed[i].conn = conn /\ hist.delivered[i].callback = callback}

InService == ~shutdown /\ inits > 0

\* The positions of the free-list and of the timeout index that name `index'.
FreeEntries(index) == {k \in 1..Len(free_index_list) : free_index_list[k] = index}

TimeoutEntries(index) ==
    {k \in 1..Len(timeout_record_list) : timeout_record_list[k].value = index}

\* C14: between Init and Shutdown the free-list and the live slots partition the
\* table: their sizes add up to the table length, every index on the free-list
\* names an empty slot of the table, and no index is on the free-list twice.
C14_FreeListPartition ==
    InService =>
        /\ Len(free_index_list) + Cardinality(Live) = Len(mgr)
        /\ \A k \in 1..Len(free_index_list) :
               /\ free_index_list[k] \in 0..(Len(mgr) - 1)
               /\ mgr[free_index_list[k] + 1].first = 0
               /\ FreeEntries(free_index_list[k]) = {k}

\* C14's case: the table has grown past the reserve, a connection was evicted
\* and its index is back on the free-list while other connections are live.
C14_Witness ==
    /\ InService
    /\ Len(mgr) > RESERVED_CONNECTION_COUNT
    /\ Cardinality(Live) >= 2
    /\ free_index_list # <<>>
    /\ CidOfSlot(free_index_list[Len(free_index_list)]) \in expired

\* C15: between Init and Shutdown a slot that holds a connection has exactly one
\* entry in the timeout index, the one its stored handle names; an empty slot
\* has none; and every entry of the index names a slot of the table.
C15_TimeoutIndex ==
    InService =>
        /\ \A i \in 0..(Len(mgr) - 1) :
               IF mgr[i + 1].first # 0
               THEN /\ Cardinality(TimeoutEntries(i)) = 1
                    /\ \A k \in TimeoutEntries(i) :
                           timeout_record_list[k].key = mgr[i + 1].second
               ELSE TimeoutEntries(i) = {}
        /\ \A k \in 1..Len(timeout_record_list) :
               timeout_record_list[k].value \in 0..(Len(mgr) - 1)

\* C15's case: after the clock advanced a handler refreshed the deadline of one
\* connection while another connection still has its first deadline and a
\* third slot was emptied by an eviction.
C15_Witness ==
    /\ InService
    /\ last.ret = "refreshed"
    /\ now > StartTime
    /\ \E i, j \in Live :
           /\ mgr[i].second = now + options.connection_timeout
           /\ mgr[j].second < mgr[i].second
    /\ \E k \in 1..Len(mgr) : mgr[k].first = 0 /\ CidOfSlot(k - 1) \in expired

\* C16: between Init and Shutdown the slot table is never longer than
\* max_connections.
C16_LengthWithinCap == InService => Len(mgr) <= options.max_connections

\* C17: an OnNewConnection that finds the free-list empty and the table at
\* least max_connections long refuses the connection and leaves the slot
\* table, the free-list, the timeout index, the queue and its counter
\* unchanged; no connection is created.
C17_RefusedAtCap ==
    [][(/\ last'.op = "OnNewConnection"
        /\ free_index_list = <<>>
        /\ Len(mgr) >= options.max_connections)
       => (/\ last'.ret = "refused"
           /\ UNCHANGED <<tables, mpscq, count, accepted, tags, shut, fault>>)]_vars

\* C17's case: with max_connections slots, all of them live, a further
\* connection was refused.
C17_Witness ==
    /\ InService
    /\ last = Ret("OnNewConnection", NoCid, "refused")
    /\ Len(mgr) = options.max_connections
    /\ Cardinality(Live) = Len(mgr)

\* C19: a sweep run by OnCheckingEvent(current) empties the slot of every
\* connection whose deadline was <= current, removes its timeout entry, puts
\* its index on the free-list and has the connection shut down; every other
\* slot and every entry with a later deadline is left as it was.
C19_SweepEvictsExpired ==
    [][(last'.op = "OnCheckingEvent" /\ last'.ret = "swept")
       => LET current == last_timeout_time' IN
          /\ \A k \in 1..Len(timeout_record_list) :
                 LET e == timeout_record_list[k] IN
                 IF e.key <= current
                 THEN /\ mgr'[e.value + 1] = NullSlot
                      /\ \E j \in 1..Len(free_index_list') :
                             free_index_list'[j] = e.value
                      /\ \A j \in 1..Len(timeout_record_list') :
                             timeout_record_list'[j].value # e.value
                      /\ CidOfSlot(e.value) \in expired'
                      /\ mgr[e.value + 1].first \notin shut'
                 ELSE /\ mgr'[e.value + 1] = mgr[e.value + 1]
                      /\ \E j \in 1..Len(timeout_record_list') :
                             timeout_record_list'[j] = e
          /\ Len(mgr') = Len(mgr)
          /\ \A i \in 1..Len(mgr) :
                 mgr[i].first = 0 => mgr'[i] = mgr[i]
          /\ Len(timeout_record_list') =
                 Cardinality({k \in 1..Len(timeout_record_list) :
                                 timeout_record_list[k].key > current})]_vars

\* C19's case: a sweep has evicted a connection whose deadline had passed (its
\* close is in the queue) and kept a connection whose deadline is later.
C19_Witness ==
    /\ InService
    /\ last = Ret("OnCheckingEvent", NoCid, "swept")
    /\ Live # {}
    /\ mpscq # <<>>
    /\ mpscq[Len(mpscq)].type = "kCloseClient"
    /\ mpscq[Len(mpscq)].cid \in expired

\* C18: the expired sweep runs at most once per minimum-interval window (1 s on
\* Linux, 3 s on Windows), also when several engine threads call
\* OnCheckingEvent with the same or close clock values: a sweep for the clock
\* value `current' runs only if the sweep before it was for a value at
\* least the interval earlier.
C18_SweepOncePerWindow ==
    [][\A thread \in Engines :
          (checking[thread] # NotChecking /\ checking'[thread] = NotChecking)
              => checking[thread] - last_timeout_time >= MinSweepInterval]_vars

\* An application callback is running on the dispatch thread.
InCallback == mq_thd = "call" /\ fault = "none"

\* C20: a callback running on the dispatch thread may call Send or
\* CloseConnection, for the cid it was given or for any other: while the
\* callback runs, none of the mutexes these calls and the pushes they cause
\* take is held by the dispatch thread, so each call can be made and can
\* finish; a call for a handle the server issued returns with the dispatch
\* thread still in its callback, and the callback can return.
C20_CallbackMayReenter ==
    /\ [](InCallback =>
            /\ \A cid \in CallCids : ENABLED Send(cid)
            /\ \A cid \in CallCids :
                   pending["user"] = Idle => ENABLED CloseConnection(cid)
            /\ pending["user"] # Idle => ENABLED WindowsFinish("user")
            /\ ENABLED MqCall)
    /\ [][(/\ InCallback
           /\ last'.op \in {"Send", "CloseConnection"}
           /\ last'.cid \in EventCids)
              => (InCallback' /\ dispatching' = dispatching)]_vars

\* C20's case: during the callback for a connection's arrival, CloseConnection
\* was called for that connection's cid and has returned true; the close it
\* caused is in the queue behind the record being dispatched.
C20_Witness ==
    /\ InCallback
    /\ dispatching.type = "kNewConnection"
    /\ last.op = "CloseConnection"
    /\ last.cid = dispatching.cid
    /\ last.ret = "true"
    /\ mpscq # <<>>
    /\ mpscq[Len(mpscq)] = [type |-> "kCloseClient", cid |-> dispatching.cid]

\* The handlers of the engine's read and write events.
IoOps == {"OnRecvEvent", "OnSendEvent"}

\* The slot of `index' holds a connection.
LiveSlot(index) == index < Len(mgr) /\ mgr[index + 1].first # 0

\* A step that leaves the slots other than `index' as they were.
OtherSlotsUnchanged(index) ==
    /\ Len(mgr') = Len(mgr)
    /\ \A i \in 0..(Len(mgr) - 1) : i # index => mgr'[i + 1] = mgr[i + 1]
    /\ \A k \in 1..Len(timeout_record_list) :
           timeout_record_list[k].value # index
               => \E j \in 1..Len(timeout_record_list') :
                      timeout_record_list'[j] = timeout_record_list[k]

\* A step that replaces the timeout entry of `index' by one entry with the
\* deadline now + connection_timeout.
DeadlineReplaced(index) ==
    LET deadline_seconds == now + options.connection_timeout IN
    /\ mgr'[index + 1] = [mgr[index + 1] EXCEPT !.second = deadline_seconds]
    /\ Cardinality({k \in 1..Len(timeout_record_list') :
                       timeout_record_list'[k].value = index}) = 1
    /\ \A k \in 1..Len(timeout_record_list') :
           timeout_record_list'[k].value = index
               => timeout_record_list'[k].key = deadline_seconds
    /\ Len(timeout_record_list') = Len(timeout_record_list)
    /\ free_index_list' = free_index_list
    /\ OtherSlotsUnchanged(index)

\* A step that evicts the connection of `index'.
SlotEvicted(index) ==
    /\ mgr'[index + 1] = NullSlot
    /\ \A k \in 1..Len(timeout_record_list') :
           timeout_record_list'[k].value # index
    /\ Len(timeout_record_list') = Len(timeout_record_list) - 1
    /\ free_index_list' = Append(free_index_list, index)
    /\ CidOfSlot(index) \in expired'
    /\ OtherSlotsUnchanged(index)

\* C21: OnRecvEvent/OnSendEvent with a valid cid whose slot holds a connection
\* delegate to the connection; on success the slot's timeout entry is replaced
\* by a single entry with deadline now + connection_timeout, on failure the
\* connection is shut down (its close is reported) and evicted: slot empty, no
\* timeout entry, index appended to the free-list.  On Linux the handler is one
\* step; on Windows the update is the handler's second step and is judged on
\* the slot it finds then.
C21_IoEventRefreshOrEvict ==
    [][/\ (/\ platform = "linux"
           /\ last'.op \in IoOps
           /\ CheckConnectionId(last'.cid) # InvalidIndex
           /\ LiveSlot(U32Val(CheckConnectionId(last'.cid))))
          => LET index == U32Val(CheckConnectionId(last'.cid)) IN
             /\ last'.ret \in {"refreshed", "evicted"}
             /\ last'.ret = "refreshed" => DeadlineReplaced(index)
             /\ last'.ret = "evicted" =>
                    /\ SlotEvicted(index)
                    /\ mpscq'[Len(mpscq')] =
                           [type |-> "kCloseClient", cid |-> last'.cid]
       /\ (/\ platform = "windows"
           /\ pending["io"] = Idle
           /\ last'.op \in IoOps
           /\ CheckConnectionId(last'.cid) # InvalidIndex
           /\ LiveSlot(U32Val(CheckConnectionId(last'.cid))))
          => /\ pending'["io"] # Idle
             /\ pending'["io"].index = U32Val(CheckConnectionId(last'.cid))
             /\ last'.ret \in {"ok", "shutdown"}
             /\ last'.ret = "ok" => pending'["io"].next = "refresh"
             /\ last'.ret = "shutdown" =>
                    /\ pending'["io"].next = "delete"
                    /\ last'.conn \in shut'
             /\ UNCHANGED tables
       /\ (/\ platform = "windows"
           /\ pending["io"] # Idle
           /\ pending["io"].op \in IoOps
           /\ pending'["io"] = Idle
           /\ LiveSlot(pending["io"].index))
          => IF pending["io"].next = "refresh"
             THEN DeadlineReplaced(pending["io"].index)
             ELSE SlotEvicted(pending["io"].index)]_vars

\* C21's case: an event that succeeded after the clock advanced has given the
\* connection a later deadline than the one it was accepted with, and an event
\* that failed has put another slot's index at the back of the free-list.
C21_Witness ==
    /\ InService
    /\ last.op \in IoOps
    /\ last.ret = "refreshed"
    /\ CheckConnectionId(last.cid) # InvalidIndex
    /\ LiveSlot(U32Val(CheckConnectionId(last.cid)))
    /\ mgr[U32Val(CheckConnectionId(last.cid)) + 1].second =
           now + options.connection_timeout
    /\ now > StartTime
    /\ free_index_list # <<>>
    /\ CidOfSlot(free_index_list[Len(free_index_list)]) \in expired

\* C22: an I/O event (OnRecvEvent, OnSendEvent, OnErrorEvent) whose cid passes
\* validation but whose slot is empty is a no-op: no connection is
\* dereferenced, no timeout entry is erased or inserted, the free-list is not
\* appended to, and nothing is reported.
C22_EventOnEmptySlot ==
    [][(/\ last'.op \in IoOps \cup {"OnErrorEvent"}
        /\ pending["io"] = Idle
        /\ CheckConnectionId(last'.cid) # InvalidIndex
        /\ U32Val(CheckConnectionId(last'.cid)) < Len(mgr)
        /\ mgr[U32Val(CheckConnectionId(last'.cid)) + 1].first = 0)
       => UNCHANGED <<tables, mpscq, count, shut, expired, fault, pending>>]_vars

\* C23: the slot table, the timeout index and the free-list are read and
\* written under _conn_mtx only, so a caller of Send, SetUserData,
\* GetUserData, SetExtendInfo or GetExtendInfo never calls into a connection
\* that another thread has evicted and destroyed since the caller read the
\* slot: the connection it calls into is the one it read and still exists.
C23_NoCallIntoDestroyed ==
    [][(/\ pending["user"] # Idle
        /\ pending["user"].next = "call"
        /\ pending'["user"] = Idle)
       => (/\ ~Destroyed(pending["user"].conn)
           /\ last'.conn = pending["user"].conn
           /\ fault' = "none")]_vars

\* C24: the dispatch thread holds _mutex only around the wait on the
\* condition variable and the pop of one record; while an application callback
\* (OnConnected, OnMessageReceived, OnClosed) runs it does not hold it.
C24_MutexFreeInCallback == InCallback => "_mutex" \notin DispatchHolds

\* The order of the statements of Shutdown: flag, listener, engine, signal,
\* join, slot table, queue drain, return.
ShutdownSteps ==
    {<<"idle", "listener">>, <<"listener", "engine">>, <<"engine", "signal">>,
     <<"signal", "join">>, <<"join", "teardown">>, <<"teardown", "drain">>,
     <<"drain", "idle">>}

\* The dispatch thread is not running: it was never started or has returned.
DispatchGone == mq_thd \in {"created", "exited"}

\* C25: the queue has at most one consumer at any moment.  Shutdown proceeds
\* in the order shutdown flag, listener, I/O engine, join of the dispatch
\* thread, slot table, queue drain; the teardown of the slot table starts only
\* after the listener and the engine were shut down and the dispatch thread
\* joined, and the drain pops only after the dispatch thread has terminated,
\* which never pops again.
C25_SingleConsumer ==
    /\ [][sd' # sd => <<sd, sd'>> \in ShutdownSteps]_vars
    /\ [](sd # "idle" => shutdown)
    /\ [](sd \in {"engine", "signal", "join", "teardown", "drain"}
              => listener = "shutdown")
    /\ [](sd \in {"signal", "join", "teardown", "drain"} => io_thread = "shutdown")
    /\ [](sd \in {"teardown", "drain"} => DispatchGone)
    /\ [][(sd = "drain" \/ sd' = "drain")
              => (mq_thd' = mq_thd /\ dispatching' = dispatching)]_vars
    /\ [][(mpscq # <<>> /\ mpscq' = Tail(mpscq))
              => (sd = "drain" \/ (mq_thd = "pop" /\ sd \notin {"teardown", "drain"}))]_vars

\* C25's case: the dispatch thread ran and has returned, the slot table is
\* cleared, and the drain has popped one record and finds another.
C25_Witness ==
    /\ sd = "drain"
    /\ mq_thd = "exited"
    /\ mgr = <<>>
    /\ drained > 0
    /\ mpscq # <<>>

\* The step is an OnNewConnection that took an index from the free-list, and
\* the index it took.
Issues == last'.op = "OnNewConnection" /\ last'.ret \in {"accepted", "dropped"}

Issued == U32Val(GetUserId(last'.cid))

\* The index freed last, when it is still on the free-list: indices enter the
\* list at the back, fresh ones (from Init or a growth) only when it is empty,
\* so it is the last element, if that one was ever evicted.
RecentlyFreed ==
    IF free_index_list # <<>>
       /\ CidOfSlot(free_index_list[Len(free_index_list)]) \in expired
    THEN {free_index_list[Len(free_index_list)]}
    ELSE {}

\* C26 as stated: the free-list is FIFO and the index freed last is not the
\* next one issued.
C26_RecentlyFreedNotNext == [][Issues => Issued \notin RecentlyFreed]_vars

\* C26, amended: the free-list is FIFO.  An accept takes the index at the front
\* (after a growth, which happens on an empty list only, the first new index);
\* every other step leaves the list as it was or appends freed indices at the
\* back, each an index that was not on the list; so a freed index is issued
\* only after all that were on the list when it was freed.  The index freed
\* last is the next one issued only when it is the single index on the list.
C26_FreeListFifo ==
    [][/\ Issues =>
              LET g == Grow(Current) IN
              /\ Issued = Head(g.fl)
              /\ free_index_list' =
                     IF last'.ret = "accepted" THEN Tail(g.fl)
                     ELSE Append(Tail(g.fl), Issued)
              /\ free_index_list = <<>> =>
                     \A k \in 1..Len(g.fl) : CidOfSlot(g.fl[k]) \notin expired
              /\ Issued \in RecentlyFreed => Len(free_index_list) = 1
       /\ (~Issues /\ InService /\ InService') =>
              /\ Len(free_index_list') >= Len(free_index_list)
              /\ SubSeq(free_index_list', 1, Len(free_index_list)) = free_index_list
              /\ \A k \in (Len(free_index_list) + 1)..Len(free_index_list') :
                     /\ CidOfSlot(free_index_list'[k]) \in expired'
                     /\ \A j \in 1..Len(free_index_list') :
                            free_index_list'[j] = free_index_list'[k] => j = k]_vars

\* C26's case: two indices were freed one after the other and an accept has
\* just reissued the one freed first; the one freed after it is still waiting
\* on the list.
C26_Witness ==
    /\ InService
    /\ last.op = "OnNewConnection"
    /\ last.ret = "accepted"
    /\ last.cid \in expired
    /\ RecentlyFreed # {}
    /\ mgr[U32Val(GetUserId(last.cid)) + 1].first # 0

\* What conn->AsyncRecv() returned in an OnNewConnection step of the Windows
\* build: `if (conn->AsyncRecv()) { conn->Shutdown(true); ... push_back(index) }'
\* drops the connection exactly when it returned true.
AsyncRecvReturned == last'.ret = "dropped"

\* Connection::AsyncRecv() reports whether the receive was posted: true when
\* it was, as OnRecvEvent and OnSendEvent do.
Posted(result) == result

\* C27: in OnNewConnection of the Windows build, when posting the first
\* asynchronous receive succeeds the connection is installed in the allocated
\* slot with one timeout entry of deadline now + connection_timeout; when it
\* fails the connection is shut down, the slot stays empty with no timeout
\* entry, and the index goes back to the free-list.
C27_FirstReceive ==
    [][(platform = "windows" /\ Issues)
       => LET index == Issued
              deadline_seconds == now + options.connection_timeout IN
          IF Posted(AsyncRecvReturned)
          THEN /\ mgr'[index + 1] = [first |-> last'.conn, second |-> deadline_seconds]
               /\ \E k \in 1..Len(timeout_record_list') :
                      timeout_record_list'[k] = [key |-> deadline_seconds, value |-> index]
               /\ \A k \in 1..Len(free_index_list') : free_index_list'[k] # index
          ELSE /\ mgr'[index + 1] = NullSlot
               /\ \A k \in 1..Len(timeout_record_list') :
                      timeout_record_list'[k].value # index
               /\ free_index_list'[Len(free_index_list')] = index
               /\ mpscq'[Len(mpscq')] = [type |-> "kCloseClient", cid |-> last'.cid]]_vars

\* C28: whenever a public call's cid is accepted by CheckConnectionId, the index
\* it returns is a position of the slot table as it is when the call reads the
\* slot, in every lifecycle state from the first successful Init on.
C28_IndexWithinTable ==
    [][(/\ inits > 0
        /\ last'.op \in AccessOps \cup {"CloseConnection"}
        /\ pending["user"] = Idle
        /\ CheckConnectionId(last'.cid) # InvalidIndex)
       => U32Val(CheckConnectionId(last'.cid)) < Len(mgr)]_vars

\* The handler of `thread' has pushed its record and has its FetchAdd to do.
Pushed(thread) == pending[thread].next = "FetchAdd"

C30_EveryPushDelivered ==
    \A n \in 1..MaxPushes :
        (Len(hist.pushed) >= n) ~> (Len(hist.delivered) >= n)

\* C31: on a running server whose threads are all scheduled, a call of
\* Shutdown that has set the flag returns, with the dispatch thread exited,
\* wherever the dispatch thread stood when the flag was set and _cv signalled.
C31_ShutdownTerminates ==
    (sd # "idle") ~> (sd = "idle" /\ mq_thd = "exited")

\* The handler of `thread' calls DeleteConnection(index) while the slot holds a
\* connection other than the one its GetConnection returned.
DeletesAfterReissue(thread) ==
    /\ platform = "windows"
    /\ pending[thread].next = "delete"
    /\ pending'[thread] = Idle
    /\ pending[thread].index < Len(mgr)
    /\ mgr[pending[thread].index + 1].first \notin {0, pending[thread].conn}

\* C32: in the Windows build the DeleteConnection that ends an eviction by
\* CloseConnection, OnErrorEvent or a failed OnRecvEvent/OnSendEvent leaves
\* the slot and the timeout index alone when the slot has been reissued to a
\* connection other than the one the handler looked up.
C32_EvictsOnlyLookedUp ==
    [][\A thread \in Threads :
           DeletesAfterReissue(thread) =>
               /\ mgr' = mgr
               /\ timeout_record_list' = timeout_record_list]_vars

\* The positions of client.calls at which WorkThread invoked `callback'.
Calls(callback) ==
    {i \in 1..Len(client.calls) : client.calls[i].callback = callback}

\* The positions at which it invoked OnConnectResult(true).
Connected ==
    {i \in Calls("OnConnectResult") : client.calls[i].arg = "true"}

\* C33: after one Init of the client, WorkThread invokes OnConnectResult at
\* most once, OnClosed at most once and only after OnConnectResult(true), and
\* OnMessageReceived only after OnConnectResult(true) and before OnClosed.
C33_ClientCallbackOrder ==
    /\ Cardinality(Calls("OnConnectResult")) <= 1
    /\ Cardinality(Calls("OnClosed")) <= 1
    /\ \A i \in Calls("OnClosed") : \E j \in Connected : j < i
    /\ \A i \in Calls("OnMessageReceived") :
           /\ \E j \in Connected : j < i
           /\ \A k \in Calls("OnClosed") : i < k

\* The worker of the second Init has returned after OnConnectResult(true), two
\* packages and OnClosed.
C33_Witness ==
    /\ client.inits = 2
    /\ client.thd = "exited"
    /\ Len(client.calls) = 4
    /\ Connected = {1}
    /\ Calls("OnMessageReceived") = {2, 3}
    /\ Calls("OnClosed") = {4}

=========================================================================
